---- MODULE Spec2Model ----
(***************************************************************************)
(* Metatron memory subsystem: the VANNA-inspired learning adapter          *)
(* (backend/memory/learning/vanna_learning_adapter.py) and the             *)
(* RASA-inspired conversation manager                                      *)
(* (backend/memory/conversation/rasa_conversation_manager.py).             *)
(*                                                                         *)
(* Floats are fixed-point integers in units of 1/Scale.  Timestamps are    *)
(* whole days of a clock that never runs backwards.  uuid4() is a counter. *)
(* A text is the sequence of its lower-cased whitespace-separated words.   *)
(***************************************************************************)
EXTENDS Integers, Sequences, FiniteSets, TLC

VARIABLES
    patterns,          \* self.patterns: dict in insertion order, as a sequence
    feedback_records,  \* self.feedback_records, in insertion order
    vectorizer,        \* self.vectorizer: [fitted, vocab, tfidf_fitted]
    pattern_vectors,   \* self.pattern_vectors: [present, rows]
    patterns_file,     \* the JSON file at patterns_db_path: [exists, data]
    feedback_file,     \* the JSON file at feedback_db_path: [exists, data]
    vectorizer_file,   \* the pickle at vectorizer_path: [exists, vocab]
    disk_writable,     \* whether open(path, 'w') on the data directory succeeds
    nextId,            \* the next value uuid.uuid4() hands out
    clock,             \* datetime.now(), in days
    call,              \* the last public call and its arguments
    ret,               \* what that call returned
    threads,           \* the request threads inside learn_from_interaction
    max_conversation_history,  \* config of the conversation manager
    default_brain_region,      \* config of the conversation manager
    sessions,          \* RasaConversationManager.sessions
    flows,             \* RasaConversationManager.flows, in registration order
    seconds,           \* datetime.now() of the conversation manager, in seconds
    convCall,          \* the last conversation call and its arguments
    convRet,           \* what that call returned
    state_changes      \* the values that call assigned to current_state, in order

learnVars == <<patterns, feedback_records, vectorizer, pattern_vectors,
               patterns_file, feedback_file, vectorizer_file, disk_writable, nextId,
               clock, call, ret, threads>>
convVars == <<max_conversation_history, default_brain_region, sessions, flows, seconds, convCall, convRet,
              state_changes>>
vars == <<patterns, feedback_records, vectorizer, pattern_vectors,
          patterns_file, feedback_file, vectorizer_file, disk_writable, nextId, clock,
          call, ret, threads, max_conversation_history, default_brain_region, sessions, flows,
          seconds,
          convCall, convRet, state_changes>>

---------------------------------------------------------------------------
(* Bounds of the model *)

MaxPatterns == 2
MaxUsage == 2
MaxFeedback == 2
MaxClock == 2
MaxLearnClock == 1
MaxRetrievePatterns == 3
MaxRetrieveUsage == 1
MaxCleanupUsage == 3
MaxCleanupFeedback == 4
MaxLoadUsage == 1
MaxLoadIds == 4

(* Fixed point *)
Scale == 10 ^ 8
Tenths(n) == n * (Scale \div 10)

None == "None"

(* a call that returns None instead of an id (ids start at 1) *)
NoneId == 0

(* min_success_score, default 0.7 *)
min_success_score == Tenths(7)

(* The similarity threshold of _find_similar_pattern, 0.8 = 4/5 *)
SimThresholdNum == 4
SimThresholdDen == 5

---------------------------------------------------------------------------
(* Input domains *)

TextA  == <<"aa", "aa", "bb">>
TextA2 == <<"bb", "aa", "aa">>   \* the words of TextA in another order
TextB  == <<"aa", "bb", "bb">>   \* cosine 4/5 with TextA
TextC  == <<"cc">>
TextE  == <<"a">>                \* no token of two or more characters
Texts == {TextA, TextA2, TextB, TextC, TextE}

PatternTypes == {"conversation", "tool_usage"}
BrainRegions == {"FRONTAL_LOBE", "CEREBELLUM"}
Outputs == {"out"}
Corrections == {None, "fixed"}
SuccessScores == {Tenths(5), Tenths(7), Tenths(10)}
FeedbackScores == {Tenths(-10), Tenths(1), Tenths(10)}

---------------------------------------------------------------------------
(* Sequence helpers *)

Range(s) == {s[i] : i \in 1..Len(s)}

(* the sum of f[x] over x in S *)
RECURSIVE Sum(_, _)
Sum(f, S) ==
    IF S = {} THEN 0
    ELSE LET e == CHOOSE x \in S : TRUE IN f[e] + Sum(f, S \ {e})

Min(a, b) == IF a < b THEN a ELSE b

(* floor of the square root *)
ISqrt(n) == CHOOSE r \in 0..n : r * r <= n /\ (r + 1) * (r + 1) > n

---------------------------------------------------------------------------
(* TF-IDF, as sklearn's TfidfVectorizer computes it *)

(* token_pattern (?u)\b\w\w+\b : words of two or more characters *)
Tokenize(text) == SelectSeq(text, LAMBDA w : Len(w) >= 2)
TokenSet(text) == Range(Tokenize(text))

(* term frequency of tok in text *)
CountWord(text, tok) == Cardinality({i \in 1..Len(text) : text[i] = tok})
Words == UNION {Range(text) : text \in Texts}
TermFrequencies == [text \in Texts |-> [tok \in Words |-> CountWord(text, tok)]]
TF(text, tok) == TermFrequencies[text][tok]

(* smooth idf over two documents, squared, in hundredths:                  *)
(* df = 2: (ln(3/3)+1)^2 = 1.00;  df = 1: (ln(3/2)+1)^2 = 1.975...         *)
IdfSqShared == 100
IdfSqExclusive == 198

(* _calculate_text_similarity: a fresh TfidfVectorizer fitted on the two   *)
(* texts, cosine of the two rows.  The result is the pair <<num, den>> of  *)
(* the squared cosine num/den (the cosine is never negative); an empty     *)
(* vocabulary raises inside fit and the bare except returns 0.0.           *)
PairVocab(text1, text2) == TokenSet(text1) \cup TokenSet(text2)
PairWeightSq(tok, text1, text2) ==
    IF tok \in TokenSet(text1) /\ tok \in TokenSet(text2)
    THEN IdfSqShared ELSE IdfSqExclusive
PairNormSq(text, text1, text2) ==
    LET V == PairVocab(text1, text2)
    IN Sum([tok \in V |-> TF(text, tok) * TF(text, tok) * PairWeightSq(tok, text1, text2)], V)
PairDot(text1, text2) ==
    LET V == PairVocab(text1, text2)
    IN Sum([tok \in V |-> TF(text1, tok) * TF(text2, tok) * PairWeightSq(tok, text1, text2)], V)
_calculate_text_similarity(text1, text2) ==
    IF PairVocab(text1, text2) = {} THEN <<0, 1>>
    ELSE LET d  == PairDot(text1, text2)
             n1 == PairNormSq(text1, text1, text2)
             n2 == PairNormSq(text2, text1, text2)
         IN IF n1 = 0 \/ n2 = 0 THEN <<0, 1>> ELSE <<d * d, n1 * n2>>

(* similarity > 0.8, on the squared cosine.  The comparison is exact here; *)
(* in floating point a cosine of 4/5 may come out one ulp above or below   *)
(* 0.8, which the comparison then treats as it treats any other value.     *)
AboveThreshold(sim) ==
    sim[1] * SimThresholdDen * SimThresholdDen > sim[2] * SimThresholdNum * SimThresholdNum

(* the comparison of line 399 for every pair of texts, computed once *)
SimilarTexts ==
    {pair \in Texts \X Texts :
        AboveThreshold(_calculate_text_similarity(pair[1], pair[2]))}

(* the same search by an exact match of the text; by type alone *)
SimilarPositionsExact(ps, input_context, pattern_type, brain_region) ==
    {i \in 1..Len(ps) :
        /\ ps[i].pattern_type = pattern_type
        /\ ps[i].brain_region = brain_region
        /\ input_context = ps[i].input_context}
SimilarPositionsAnyRegion(ps, input_context, pattern_type, brain_region) ==
    {i \in 1..Len(ps) :
        /\ ps[i].pattern_type = pattern_type
        /\ <<input_context, ps[i].input_context>> \in SimilarTexts}

(* the positions of self.patterns that _find_similar_pattern accepts *)
SimilarPositions(ps, input_context, pattern_type, brain_region) ==
    {i \in 1..Len(ps) :
        /\ ps[i].pattern_type = pattern_type
        /\ ps[i].brain_region = brain_region
        /\ <<input_context, ps[i].input_context>> \in SimilarTexts}

(* _find_similar_pattern: the first such position in dict order, 0 for None *)
_find_similar_pattern(ps, input_context, pattern_type, brain_region) ==
    LET S == SimilarPositions(ps, input_context, pattern_type, brain_region)
    IN IF S = {} THEN 0 ELSE CHOOSE i \in S : \A j \in S : i <= j

---------------------------------------------------------------------------
(* The similarity index: TfidfVectorizer(max_features=1000,                *)
(* stop_words='english') fitted over every pattern's input_context.        *)
(*                                                                         *)
(* A row is the term-frequency vector over the fitted vocabulary.  In the  *)
(* texts of this model the tokens of one text always occur in the same     *)
(* documents, so they share one idf weight, which the l2 normalisation of  *)
(* the row cancels: the cosine of two rows is the cosine of their term     *)
(* frequencies.                                                            *)

StopWords == {"the", "and", "of"}
IndexTokensOf == [text \in Texts |-> {w \in TokenSet(text) : w \notin StopWords}]
IndexTokens(text) == IndexTokensOf[text]

RECURSIVE CorpusVocab(_)
CorpusVocab(texts) ==
    IF texts = <<>> THEN {}
    ELSE IndexTokens(Head(texts)) \cup CorpusVocab(Tail(texts))

PatternTexts(ps) == [i \in 1..Len(ps) |-> ps[i].input_context]

(* vectorizer.transform([text]) for a fitted vocabulary *)
Transform(vocab, text) == [tok \in vocab |-> TF(text, tok)]

UnfittedVectorizer == [fitted |-> FALSE, vocab |-> {}, tfidf_fitted |-> FALSE]
CanTransform(v) == v.fitted /\ v.tfidf_fitted

NoVectors == [present |-> FALSE, rows |-> <<>>]

(* sklearn.metrics.pairwise.cosine_similarity of two rows, in 1/Scale *)
RowNormSq(row) == Sum([tok \in DOMAIN row |-> row[tok] * row[tok]], DOMAIN row)
RowDot(r1, r2) == Sum([tok \in DOMAIN r1 |-> r1[tok] * r2[tok]], DOMAIN r1)
cosine_similarity(r1, r2) ==
    IF RowNormSq(r1) = 0 \/ RowNormSq(r2) = 0 THEN 0
    ELSE (RowDot(r1, r2) * Scale) \div ISqrt(RowNormSq(r1) * RowNormSq(r2))

(* _update_pattern_vectors: transform raises on a vectorizer that is not   *)
(* fitted; the except keeps the old vectors.                               *)
_update_pattern_vectors(st) ==
    IF st.patterns = <<>> \/ ~CanTransform(st.vectorizer) THEN st
    ELSE [st EXCEPT !.pattern_vectors =
            [present |-> TRUE,
             rows |-> [i \in 1..Len(st.patterns) |->
                          Transform(st.vectorizer.vocab, st.patterns[i].input_context)]]]

(* _update_vectorizer.  fit raises ValueError on an empty vocabulary, and  *)
(* the except leaves the vectors and the pickle as they were.  Whether the *)
(* failed fit has already replaced the vectorizer's idf transformer by an  *)
(* unfitted one depends on the installed scikit-learn: resets.  When the   *)
(* pickle cannot be opened for writing the except leaves it as it was.     *)
_update_vectorizer(st, resets) ==
    IF st.patterns = <<>> THEN st
    ELSE LET vocab == CorpusVocab(PatternTexts(st.patterns)) IN
         IF vocab = {}
         THEN [st EXCEPT !.vectorizer.tfidf_fitted = IF resets THEN FALSE ELSE @]
         ELSE LET fitted == [fitted |-> TRUE, vocab |-> vocab, tfidf_fitted |-> TRUE]
                  st1 == _update_pattern_vectors([st EXCEPT !.vectorizer = fitted])
              IN IF st.disk_writable
                 THEN [st1 EXCEPT !.vectorizer_file = [exists |-> TRUE, vocab |-> vocab]]
                 ELSE st1

(* asdict and json.dump; json.load and the LearningPattern constructor *)
PatternToJson(p) ==
    [id |-> p.id, pattern_type |-> p.pattern_type, input_context |-> p.input_context,
     successful_output |-> p.successful_output, success_score |-> p.success_score,
     brain_region |-> p.brain_region, metadata |-> p.metadata,
     created_at |-> p.created_at, usage_count |-> p.usage_count,
     last_used |-> p.last_used, effectiveness_score |-> p.effectiveness_score]
PatternFromJson(d) ==
    [id |-> d.id, pattern_type |-> d.pattern_type, input_context |-> d.input_context,
     successful_output |-> d.successful_output, success_score |-> d.success_score,
     brain_region |-> d.brain_region, metadata |-> d.metadata,
     created_at |-> d.created_at,
     usage_count |-> IF "usage_count" \in DOMAIN d THEN d.usage_count ELSE 0,
     last_used |-> IF "last_used" \in DOMAIN d THEN d.last_used ELSE None,
     effectiveness_score |-> IF "effectiveness_score" \in DOMAIN d
                             THEN d.effectiveness_score ELSE Scale]

(* _save_patterns and _save_feedback: open raises when the file cannot be  *)
(* written, and the except logs it and returns                             *)
_save_patterns(st) ==
    IF st.disk_writable
    THEN [st EXCEPT !.patterns_file =
            [exists |-> TRUE,
             data |-> [i \in 1..Len(st.patterns) |-> PatternToJson(st.patterns[i])]]]
    ELSE st

_save_feedback(st) ==
    IF st.disk_writable
    THEN [st EXCEPT !.feedback_file = [exists |-> TRUE, data |-> st.feedback_records]]
    ELSE st

NoMetadata == [source |-> None, original_pattern |-> 0]

(* the blend of an update: old * 0.9 + success_score * 0.1 *)
BlendReuse(old, success_score) == (old * 9 + success_score) \div 10

(* "if success_score < self.min_success_score": the significance gate *)
BelowGateTypo(success_score) == success_score < Tenths(5)
BelowGate(success_score) == success_score < min_success_score

(* learn_from_interaction: the adapter after the call, and what it returns *)
learn_from_interaction(st, input_context, output_result, success_score, brain_region, pattern_type, metadata, now, resets) ==
    IF BelowGate(success_score)
    THEN [st |-> st, ret |-> NoneId]
    ELSE LET i == _find_similar_pattern(st.patterns, input_context, pattern_type, brain_region) IN
         IF i # 0
         THEN LET upd == [st.patterns[i] EXCEPT
                             !.usage_count = @ + 1,
                             !.last_used = now,
                             !.effectiveness_score = BlendReuse(@, success_score)]
              IN [st |-> _save_patterns([st EXCEPT !.patterns[i] = upd]),
                  ret |-> st.patterns[i].id]
         ELSE LET new_pattern ==
                      [id |-> st.nextId, pattern_type |-> pattern_type,
                       input_context |-> input_context,
                       successful_output |-> output_result,
                       success_score |-> success_score,
                       brain_region |-> brain_region, metadata |-> metadata,
                       created_at |-> now, usage_count |-> 1, last_used |-> now,
                       effectiveness_score |-> success_score]
                  st1 == [st EXCEPT !.patterns = Append(@, new_pattern),
                                    !.nextId = @ + 1]
              IN [st |-> _save_patterns(_update_vectorizer(st1, resets)),
                  ret |-> new_pattern.id]

---------------------------------------------------------------------------
(* record_feedback *)

(* the position of pattern_id in self.patterns, 0 when it is not a key *)
PositionOf(ps, pattern_id) ==
    IF \E i \in 1..Len(ps) : ps[i].id = pattern_id
    THEN CHOOSE i \in 1..Len(ps) : ps[i].id = pattern_id
    ELSE 0

(* the blend without the halving of feedback_score + 1.0 *)
BlendFeedbackUnhalved(old, feedback_score) ==
    (old * 8 + (feedback_score + Scale) * 2) \div 10

(* old * 0.8 + (feedback_score + 1.0) / 2.0 * 0.2 *)
BlendFeedback(old, feedback_score) ==
    (old * 8 + ((feedback_score + Scale) \div 2) * 2) \div 10

(* "if corrected_output": None and the empty string are falsy *)
Truthy(x) == x # None /\ x # ""

record_feedback(st, pattern_id, user_id, feedback_type, feedback_score, original_output, corrected_output, now, resets) ==
    LET feedback_record ==
            [id |-> st.nextId, pattern_id |-> pattern_id, user_id |-> user_id,
             feedback_type |-> feedback_type, original_output |-> original_output,
             corrected_output |-> corrected_output,
             feedback_score |-> feedback_score, timestamp |-> now, context |-> {}]
        st1 == [st EXCEPT !.feedback_records = Append(@, feedback_record),
                          !.nextId = @ + 1]
        i == PositionOf(st1.patterns, pattern_id)
        st2 == IF i = 0 THEN st1
               ELSE [st1 EXCEPT !.patterns[i].effectiveness_score =
                                    BlendFeedback(@, feedback_score)]
        st3 == IF i # 0 /\ Truthy(corrected_output) /\ feedback_score > 0
               THEN learn_from_interaction(
                        st2, st2.patterns[i].input_context, corrected_output,
                        Min(Scale, feedback_score + Tenths(5)),
                        st2.patterns[i].brain_region, st2.patterns[i].pattern_type,
                        [source |-> "user_correction", original_pattern |-> pattern_id],
                        now, resets).st
               ELSE st2
    IN [st |-> _save_patterns(_save_feedback(st3)), ret |-> feedback_record.id]

---------------------------------------------------------------------------
(* cleanup_old_patterns *)

(* configured pattern_decay_days, in days of the clock *)
pattern_decay_days == 1
MinEffectiveness == Tenths(5)
MinUsage == 3

(* the same with a pattern created exactly pattern_decay_days ago included *)
ShouldRemoveInclusive(p, now) ==
    /\ p.created_at <= now - pattern_decay_days
    /\ p.effectiveness_score < MinEffectiveness
    /\ p.usage_count < MinUsage

ShouldRemove(p, now) ==
    /\ p.created_at < now - pattern_decay_days
    /\ p.effectiveness_score < MinEffectiveness
    /\ p.usage_count < MinUsage

(* a cleanup that also purges the feedback given on the removed patterns *)
cleanup_old_patternsWithFeedback(st, now, resets) ==
    LET kept == SelectSeq(st.patterns, LAMBDA p : ~ShouldRemove(p, now))
        keptIds == {kept[i].id : i \in 1..Len(kept)}
        st1 == [st EXCEPT !.patterns = kept,
                          !.feedback_records =
                              SelectSeq(@, LAMBDA f : f.pattern_id \in keptIds)]
    IN IF Len(kept) = Len(st.patterns) THEN st
       ELSE _save_feedback(_save_patterns(_update_vectorizer(st1, resets)))

cleanup_old_patterns(st, now, resets) ==
    LET kept ==SelectSeq(st.patterns, LAMBDA p : ~ShouldRemove(p, now)) IN
    IF Len(kept) = Len(st.patterns) THEN st
    ELSE _save_patterns(_update_vectorizer([st EXCEPT !.patterns = kept], resets))

---------------------------------------------------------------------------
(* retrieve_relevant_patterns *)

(* list.sort(key=score, reverse=True): stable, equal scores keep their order *)
RECURSIVE InsertByScore(_, _)
InsertByScore(sorted, e) ==
    IF sorted = <<>> THEN <<e>>
    ELSE IF Head(sorted).score >= e.score
         THEN <<Head(sorted)>> \o InsertByScore(Tail(sorted), e)
         ELSE <<e>> \o sorted
RECURSIVE SortByScoreDesc(_)
SortByScoreDesc(scored) ==
    IF scored = <<>> THEN <<>>
    ELSE InsertByScore(SortByScoreDesc(SubSeq(scored, 1, Len(scored) - 1)),
                       scored[Len(scored)])

TopPatterns(scored, limit) ==
    LET sorted == SortByScoreDesc(scored)
    IN [k \in 1..Min(limit, Len(sorted)) |-> sorted[k].pattern]

(* similarity * 0.7 + effectiveness_score * 0.3, in 1/(10*Scale) *)
CombinedScore(similarity, effectiveness_score) == similarity * 7 + effectiveness_score * 3

(* the optional filters: a falsy filter is no filter *)
PassesFilter(p, pattern_type, brain_region) ==
    /\ ~(Truthy(pattern_type) /\ p.pattern_type # pattern_type)
    /\ ~(Truthy(brain_region) /\ p.brain_region # brain_region)

(* _simple_text_matching: word overlap over the set of all words *)
WordSet(text) == Range(text)
WordOverlap(query, text) ==
    (Cardinality(WordSet(query) \cap WordSet(text)) * Scale)
        \div Cardinality(WordSet(query) \cup WordSet(text))
_simple_text_matching(query, candidates, limit) ==
    LET usable == SelectSeq(candidates,
                    LAMBDA p : WordSet(query) \cup WordSet(p.input_context) # {})
        scored == [k \in 1..Len(usable) |->
                    [pattern |-> usable[k],
                     score |-> CombinedScore(WordOverlap(query, usable[k].input_context),
                                             usable[k].effectiveness_score)]]
    IN TopPatterns(scored, limit)

retrieve_relevant_patterns(st, query_context, pattern_type, brain_region, limit) ==
    LET candidate_patterns ==
            SelectSeq(st.patterns, LAMBDA p : PassesFilter(p, pattern_type, brain_region))
        rows == st.pattern_vectors.rows
    IN
    IF st.patterns = <<>> \/ candidate_patterns = <<>> THEN <<>>
    ELSE IF st.pattern_vectors.present
    THEN IF ~CanTransform(st.vectorizer) THEN <<>>     \* transform raises
         ELSE LET query_vector == Transform(st.vectorizer.vocab, query_context) IN
              IF \E i \in 1..Len(rows) : DOMAIN rows[i] # DOMAIN query_vector
              THEN <<>>                                 \* cosine_similarity raises
              ELSE LET similarities ==
                           [i \in 1..Len(rows) |-> cosine_similarity(query_vector, rows[i])]
                       n == Min(Len(candidate_patterns), Len(similarities))
                       scored == [i \in 1..n |->
                                    [pattern |-> candidate_patterns[i],
                                     score |-> CombinedScore(
                                         similarities[i],
                                         candidate_patterns[i].effectiveness_score)]]
                   IN TopPatterns(scored, limit)
    ELSE _simple_text_matching(query_context, candidate_patterns, limit)

---------------------------------------------------------------------------
(* Construction: __init__ over the persisted files *)

(* the constructors of LearningPattern and FeedbackRecord, called with the *)
(* record as keyword arguments, raise TypeError when a field without a     *)
(* default is missing or a key is no field of the dataclass                *)
RequiredPatternFields ==
    {"id", "pattern_type", "input_context", "successful_output", "success_score",
     "brain_region", "metadata", "created_at"}
PatternFields == RequiredPatternFields \cup {"usage_count", "last_used", "effectiveness_score"}
FeedbackFields ==
    {"id", "pattern_id", "user_id", "feedback_type", "original_output",
     "corrected_output", "feedback_score", "timestamp", "context"}
WellFormedPattern(d) ==
    RequiredPatternFields \subseteq DOMAIN d /\ DOMAIN d \subseteq PatternFields
WellFormedFeedback(d) == DOMAIN d = FeedbackFields

(* the records a loading loop has stored when it ends: all of them, or     *)
(* those before the first record whose constructor raises, since the try   *)
(* encloses the whole loop                                                 *)
LoadedBeforeFailure(data, bad) ==
    IF bad = {} THEN data
    ELSE SubSeq(data, 1, (CHOOSE i \in bad : \A j \in bad : i <= j) - 1)
MalformedPatterns(data) == {i \in 1..Len(data) : ~WellFormedPattern(data[i])}
MalformedFeedback(data) == {i \in 1..Len(data) : ~WellFormedFeedback(data[i])}

(* the loop that skips the record whose constructor raises *)
_load_patternsSkipping(file) ==
    IF file.exists
    THEN LET good == SelectSeq(file.data, WellFormedPattern)
         IN [i \in 1..Len(good) |-> PatternFromJson(good[i])]
    ELSE <<>>

_load_patterns(file) ==
    IF file.exists
    THEN LET loaded == LoadedBeforeFailure(file.data, MalformedPatterns(file.data))
         IN [i \in 1..Len(loaded) |-> PatternFromJson(loaded[i])]
    ELSE <<>>

_load_feedback(file) ==
    IF file.exists
    THEN LoadedBeforeFailure(file.data, MalformedFeedback(file.data))
    ELSE <<>>

_initialize_vectorizer(st, resets) ==
    IF st.vectorizer_file.exists /\ st.patterns # <<>>
    THEN _update_pattern_vectors(
            [st EXCEPT !.vectorizer = [fitted |-> TRUE, vocab |-> st.vectorizer_file.vocab,
                                       tfidf_fitted |-> TRUE]])
    ELSE IF st.patterns # <<>> THEN _update_vectorizer(st, resets)
    ELSE st

(* a fresh VannaLearningAdapter over the files of st *)
NewAdapter(st, resets) ==
    _initialize_vectorizer(
        [st EXCEPT !.patterns = _load_patterns(st.patterns_file),
                   !.feedback_records = _load_feedback(st.feedback_file),
                   !.vectorizer = UnfittedVectorizer,
                   !.pattern_vectors = NoVectors],
        resets)

NoFile == [exists |-> FALSE, data |-> <<>>]
NoPickle == [exists |-> FALSE, vocab |-> {}]

---------------------------------------------------------------------------
(* The adapter as one value, and the public calls as actions *)

Adapter ==
    [patterns |-> patterns, feedback_records |-> feedback_records,
     vectorizer |-> vectorizer, pattern_vectors |-> pattern_vectors,
     patterns_file |-> patterns_file, feedback_file |-> feedback_file,
     vectorizer_file |-> vectorizer_file, disk_writable |-> disk_writable,
     nextId |-> nextId]

SetAdapter(st) ==
    /\ patterns' = st.patterns
    /\ feedback_records' = st.feedback_records
    /\ vectorizer' = st.vectorizer
    /\ pattern_vectors' = st.pattern_vectors
    /\ patterns_file' = st.patterns_file
    /\ feedback_file' = st.feedback_file
    /\ vectorizer_file' = st.vectorizer_file
    /\ nextId' = st.nextId

(* the outcomes of a failed fit that the installed scikit-learn may show: *)
(* a fit can only fail when some text of the store has no index token     *)
FitOutcomes(texts) ==
    IF \E i \in 1..Len(texts) : IndexTokens(texts[i]) = {} THEN BOOLEAN ELSE {FALSE}

Returned(id, ps) == [id |-> id, patterns |-> ps]

Learn(input_context, output_result, success_score, brain_region, pattern_type) ==
    \E resets \in FitOutcomes(Append(PatternTexts(patterns), input_context)) :
        \E r \in {learn_from_interaction(Adapter, input_context, output_result,
                                         success_score, brain_region, pattern_type,
                                         NoMetadata, clock, resets)} :
           /\ SetAdapter(r.st)
           /\ call' = [op |-> "learn", input_context |-> input_context,
                       output_result |-> output_result,
                       success_score |-> success_score,
                       brain_region |-> brain_region, pattern_type |-> pattern_type]
           /\ ret' = Returned(r.ret, <<>>)
           /\ UNCHANGED <<disk_writable, clock, threads, convVars>>

Feedback(pattern_id, feedback_type, feedback_score, corrected_output) ==
    \E resets \in FitOutcomes(PatternTexts(patterns)) :
        \E r \in {record_feedback(Adapter, pattern_id, "user", feedback_type,
                                  feedback_score, "out", corrected_output, clock, resets)} :
           /\ SetAdapter(r.st)
           /\ call' = [op |-> "feedback", pattern_id |-> pattern_id,
                       feedback_type |-> feedback_type,
                       feedback_score |-> feedback_score,
                       corrected_output |-> corrected_output]
           /\ ret' = Returned(r.ret, <<>>)
           /\ UNCHANGED <<disk_writable, clock, threads, convVars>>

Cleanup ==
    \E resets \in FitOutcomes(PatternTexts(patterns)) :
        /\ \E st \in {cleanup_old_patterns(Adapter, clock, resets)} : SetAdapter(st)
        /\ call' = [op |-> "cleanup"]
        /\ ret' = Returned(NoneId, <<>>)
        /\ UNCHANGED <<disk_writable, clock, threads, convVars>>

(* a retrieval that counts the use of every pattern it returns *)
RetrieveCounting(query_context, pattern_type, brain_region, limit) ==
    LET got == retrieve_relevant_patterns(Adapter, query_context, pattern_type,
                                          brain_region, limit)
        gotIds == {got[k].id : k \in 1..Len(got)}
    IN /\ call' = [op |-> "retrieve", query_context |-> query_context,
                   pattern_type |-> pattern_type, brain_region |-> brain_region,
                   limit |-> limit]
       /\ ret' = Returned(NoneId, got)
       /\ patterns' = [i \in 1..Len(patterns) |->
                          IF patterns[i].id \in gotIds
                          THEN [patterns[i] EXCEPT !.usage_count = @ + 1]
                          ELSE patterns[i]]
       /\ UNCHANGED <<feedback_records, vectorizer, pattern_vectors,
                      patterns_file, feedback_file, vectorizer_file, disk_writable,
                      nextId, clock, threads, convVars>>

Retrieve(query_context, pattern_type, brain_region, limit) ==
    /\ call' = [op |-> "retrieve", query_context |-> query_context,
                pattern_type |-> pattern_type, brain_region |-> brain_region,
                limit |-> limit]
    /\ ret' = Returned(NoneId, retrieve_relevant_patterns(
                  Adapter, query_context, pattern_type, brain_region, limit))
    /\ UNCHANGED <<patterns, feedback_records, vectorizer, pattern_vectors,
                   patterns_file, feedback_file, vectorizer_file, disk_writable,
                   nextId, clock, threads, convVars>>

(* the process is restarted: a new adapter is constructed over the files *)
Restart ==
    \E resets \in FitOutcomes(PatternTexts(_load_patterns(patterns_file))) :
        /\ \E st \in {NewAdapter(Adapter, resets)} : SetAdapter(st)
        /\ call' = [op |-> "restart"]
        /\ ret' = Returned(NoneId, <<>>)
        /\ UNCHANGED <<disk_writable, clock, threads, convVars>>

(* the environment: a record of a file is damaged, it loses its fields but *)
(* its id; the data directory becomes read-only, or writable again         *)
DamagedRecord(d) == [id |-> d.id]
DamagePatternsFile(i) ==
    /\ patterns_file.exists
    /\ i \in 1..Len(patterns_file.data)
    /\ WellFormedPattern(patterns_file.data[i])
    /\ patterns_file' = [patterns_file EXCEPT !.data[i] = DamagedRecord(@)]
    /\ call' = [op |-> "damage"]
    /\ ret' = Returned(NoneId, <<>>)
    /\ UNCHANGED <<patterns, feedback_records, vectorizer, pattern_vectors,
                   feedback_file, vectorizer_file, disk_writable, nextId, clock,
                   threads, convVars>>
DamageFeedbackFile(i) ==
    /\ feedback_file.exists
    /\ i \in 1..Len(feedback_file.data)
    /\ WellFormedFeedback(feedback_file.data[i])
    /\ feedback_file' = [feedback_file EXCEPT !.data[i] = DamagedRecord(@)]
    /\ call' = [op |-> "damage"]
    /\ ret' = Returned(NoneId, <<>>)
    /\ UNCHANGED <<patterns, feedback_records, vectorizer, pattern_vectors,
                   patterns_file, vectorizer_file, disk_writable, nextId, clock,
                   threads, convVars>>
SetWritable(w) ==
    /\ disk_writable # w
    /\ disk_writable' = w
    /\ call' = [op |-> "disk"]
    /\ ret' = Returned(NoneId, <<>>)
    /\ UNCHANGED <<patterns, feedback_records, vectorizer, pattern_vectors,
                   patterns_file, feedback_file, vectorizer_file, nextId, clock,
                   threads, convVars>>

(* a day passes *)
Tick(maxClock) ==
    /\ clock < maxClock
    /\ clock' = clock + 1
    /\ call' = [op |-> "tick"]
    /\ ret' = Returned(NoneId, <<>>)
    /\ UNCHANGED <<patterns, feedback_records, vectorizer, pattern_vectors,
                   patterns_file, feedback_file, vectorizer_file, disk_writable,
                   nextId, threads, convVars>>

---------------------------------------------------------------------------
(* Request threads.  learning_api.py holds one adapter for the process     *)
(* (learning_adapter) and every request thread of the server calls it; the *)
(* adapter takes no lock.  A thread inside learn_from_interaction is at    *)
(* one of its statements: between two of them another thread may run.      *)

MaxThreads == 2
ThreadIds == 1..MaxThreads

IdleThread == [pc |-> "idle", input_context |-> <<>>, success_score |-> 0,
               similar |-> NoneId, pattern_id |-> NoneId]

ThreadStep(t, step) == [op |-> step, thread |-> t]

(* the request arrives: learn_from_interaction is entered *)
BeginLearn(t, input_context, success_score) ==
    /\ threads[t].pc = "idle"
    /\ threads' = [threads EXCEPT ![t] = [IdleThread EXCEPT !.pc = "find",
                                             !.input_context = input_context,
                                             !.success_score = success_score]]
    /\ call' = ThreadStep(t, "begin")
    /\ ret' = Returned(NoneId, <<>>)
    /\ UNCHANGED <<patterns, feedback_records, vectorizer, pattern_vectors,
                   patterns_file, feedback_file, vectorizer_file, disk_writable,
                   nextId, clock, convVars>>

(* lines 101-106: the gate, and similar_pattern = _find_similar_pattern() *)
FindSimilar(t, brain_region, pattern_type) ==
    /\ threads[t].pc = "find"
    /\ LET i == _find_similar_pattern(patterns, threads[t].input_context,
                                      pattern_type, brain_region)
       IN threads' = [threads EXCEPT
              ![t].pc = IF BelowGate(threads[t].success_score) THEN "done"
                        ELSE IF i # 0 THEN "update" ELSE "insert",
              ![t].similar = IF BelowGate(threads[t].success_score) \/ i = 0
                             THEN NoneId ELSE patterns[i].id]
    /\ call' = ThreadStep(t, "find")
    /\ ret' = Returned(NoneId, <<>>)
    /\ UNCHANGED <<patterns, feedback_records, vectorizer, pattern_vectors,
                   patterns_file, feedback_file, vectorizer_file, disk_writable,
                   nextId, clock, convVars>>

(* lines 110-114: the update of the pattern object that was found *)
UpdateSimilar(t) ==
    /\ threads[t].pc = "update"
    /\ LET i == PositionOf(patterns, threads[t].similar)
       IN patterns' = [patterns EXCEPT
              ![i] = [@ EXCEPT !.usage_count = @ + 1,
                               !.last_used = clock,
                               !.effectiveness_score =
                                   BlendReuse(@, threads[t].success_score)]]
    /\ threads' = [threads EXCEPT ![t].pc = "save",
                                  ![t].pattern_id = threads[t].similar]
    /\ call' = ThreadStep(t, "update")
    /\ ret' = Returned(NoneId, <<>>)
    /\ UNCHANGED <<feedback_records, vectorizer, pattern_vectors,
                   patterns_file, feedback_file, vectorizer_file, disk_writable,
                   nextId, clock, convVars>>

(* lines 120-135: a new pattern under a fresh id is put into self.patterns *)
InsertPattern(t, output_result, brain_region, pattern_type) ==
    /\ threads[t].pc = "insert"
    /\ patterns' = Append(patterns,
                          [id |-> nextId, pattern_type |-> pattern_type,
                           input_context |-> threads[t].input_context,
                           successful_output |-> output_result,
                           success_score |-> threads[t].success_score,
                           brain_region |-> brain_region, metadata |-> NoMetadata,
                           created_at |-> clock, usage_count |-> 1, last_used |-> clock,
                           effectiveness_score |-> threads[t].success_score])
    /\ nextId' = nextId + 1
    /\ threads' = [threads EXCEPT ![t].pc = "index", ![t].pattern_id = nextId]
    /\ call' = ThreadStep(t, "insert")
    /\ ret' = Returned(NoneId, <<>>)
    /\ UNCHANGED <<feedback_records, vectorizer, pattern_vectors,
                   patterns_file, feedback_file, vectorizer_file, disk_writable,
                   clock, convVars>>

(* line 139: self._update_vectorizer() *)
RebuildIndex(t) ==
    /\ threads[t].pc = "index"
    /\ \E resets \in FitOutcomes(PatternTexts(patterns)) :
          \E st \in {_update_vectorizer(Adapter, resets)} : SetAdapter(st)
    /\ threads' = [threads EXCEPT ![t].pc = "save"]
    /\ call' = ThreadStep(t, "index")
    /\ ret' = Returned(NoneId, <<>>)
    /\ UNCHANGED <<disk_writable, clock, convVars>>

(* lines 116-117 and 140-142: self._save_patterns() and the return *)
SavePatterns(t) ==
    /\ threads[t].pc = "save"
    /\ \E st \in {_save_patterns(Adapter)} : SetAdapter(st)
    /\ threads' = [threads EXCEPT ![t].pc = "done"]
    /\ call' = ThreadStep(t, "save")
    /\ ret' = Returned(threads[t].pattern_id, <<>>)
    /\ UNCHANGED <<disk_writable, clock, convVars>>

---------------------------------------------------------------------------
(* The REST endpoints of learning_api.py over the adapter *)

(* "if not 0.0 <= success_score <= 1.0" *)
ValidSuccessScore(success_score) == 0 <= success_score /\ success_score <= Scale

(* "if not -1.0 <= feedback_score <= 1.0" with the upper bound left out *)
ValidFeedbackScoreAtLeastMinusOne(feedback_score) == -Scale <= feedback_score
ValidFeedbackScore(feedback_score) == -Scale <= feedback_score /\ feedback_score <= Scale

valid_feedback_types == {"positive", "negative", "correction"}

(* the HTTP status of a response *)
Ok == 200
BadRequest == 400
ServerError == 500

(* POST /api/learning/learn: the adapter after the request, the response *)
ApiLearnResponse(st, input_context, output_result, success_score, brain_region, pattern_type, now, resets) ==
    IF ~ValidSuccessScore(success_score)
    THEN [st |-> st, success |-> FALSE, id |-> NoneId, status |-> BadRequest]
    ELSE LET r == learn_from_interaction(st, input_context, output_result, success_score,
                                         brain_region, pattern_type, NoMetadata, now, resets)
         IN [st |-> r.st, success |-> r.ret # NoneId, id |-> r.ret, status |-> Ok]

(* POST /api/learning/feedback *)
ApiFeedbackResponse(st, pattern_id, user_id, feedback_type, feedback_score, original_output, corrected_output, now, resets) ==
    IF ~ValidFeedbackScore(feedback_score) \/ feedback_type \notin valid_feedback_types
    THEN [st |-> st, success |-> FALSE, id |-> NoneId, status |-> BadRequest]
    ELSE LET r == record_feedback(st, pattern_id, user_id, feedback_type, feedback_score,
                                  original_output, corrected_output, now, resets)
         IN [st |-> r.st, success |-> r.ret # NoneId, id |-> r.ret,
             status |-> IF r.ret # NoneId THEN Ok ELSE ServerError]

Responded(r) == [id |-> r.id, patterns |-> <<>>, success |-> r.success, status |-> r.status]

ApiLearn(input_context, output_result, success_score, brain_region, pattern_type) ==
    \E resets \in FitOutcomes(Append(PatternTexts(patterns), input_context)) :
        \E r \in {ApiLearnResponse(Adapter, input_context, output_result, success_score,
                                   brain_region, pattern_type, clock, resets)} :
           /\ SetAdapter(r.st)
           /\ call' = [op |-> "api_learn", input_context |-> input_context,
                       output_result |-> output_result,
                       success_score |-> success_score,
                       brain_region |-> brain_region, pattern_type |-> pattern_type]
           /\ ret' = Responded(r)
           /\ UNCHANGED <<disk_writable, clock, threads, convVars>>

ApiFeedback(pattern_id, feedback_type, feedback_score, corrected_output) ==
    \E resets \in FitOutcomes(PatternTexts(patterns)) :
        \E r \in {ApiFeedbackResponse(Adapter, pattern_id, "user", feedback_type,
                                      feedback_score, "out", corrected_output, clock,
                                      resets)} :
           /\ SetAdapter(r.st)
           /\ call' = [op |-> "api_feedback", pattern_id |-> pattern_id,
                       feedback_type |-> feedback_type,
                       feedback_score |-> feedback_score,
                       corrected_output |-> corrected_output]
           /\ ret' = Responded(r)
           /\ UNCHANGED <<disk_writable, clock, threads, convVars>>

---------------------------------------------------------------------------
(* The conversation manager (rasa_conversation_manager.py).  A message is  *)
(* the sequence of its characters; a response is a sequence of its parts.  *)

MaxSessions == 1
MaxSeconds == 1
MaxHistoryLimit == 2
MaxHistoryLen == 3
MaxSessionPair == 2
MaxPairHistoryLen == 4

MsgWhat == <<"W", "h", "a", "t">>
MsgRecall == <<"r", "e", "c", "a", "l", "l">>
MsgApi == <<"a", "p", "i">>
Messages == {MsgWhat, MsgRecall, MsgApi}

(* messages with words of two keyword buckets *)
MsgMyMemory == <<"m", "y", " ", "m", "e", "m", "o", "r", "y">>
MsgMyTask == <<"M", "y", " ", "t", "a", "s", "k">>
MsgApiNow == <<"a", "p", "i", " ", "n", "o", "w">>

(* a message that is no str: the JSON number 7, which the API passes on *)
MsgNumber == <<"<int 7>">>
IsStr(message) == message # MsgNumber
(* str(message) *)
Str(message) == IF IsStr(message) THEN message ELSE <<"7">>

(* str.lower(), over the capitals the messages use *)
LowerChar(c) == IF c = "W" THEN "w" ELSE IF c = "M" THEN "m" ELSE c
Lower(message) == [i \in 1..Len(message) |-> LowerChar(message[i])]

(* "word in message": word occurs in message as a substring *)
Contains(message, word) ==
    \E i \in 1..(Len(message) - Len(word) + 1) :
        SubSeq(message, i, i + Len(word) - 1) = word

(* the keyword buckets of _classify_brain_region, in their order *)
MemoryWords == <<<<"r", "e", "m", "e", "m", "b", "e", "r">>, <<"m", "e", "m", "o", "r", "y">>, <<"r", "e", "c", "a", "l", "l">>, <<"f", "o", "r", "g", "e", "t">>>>
PersonalWords == <<<<"m", "y">>, <<"i", " ", "a", "m">>, <<"p", "e", "r", "s", "o", "n", "a", "l">>, <<"p", "r", "e", "f", "e", "r", "e", "n", "c", "e">>>>
TaskWords == <<<<"w", "o", "r", "k", "i", "n", "g">>, <<"c", "u", "r", "r", "e", "n", "t">>, <<"t", "a", "s", "k">>, <<"n", "o", "w">>>>
ToolWords == <<<<"t", "o", "o", "l">>, <<"s", "y", "s", "t", "e", "m">>, <<"f", "u", "n", "c", "t", "i", "o", "n">>, <<"a", "p", "i">>>>

AnyWordIn(words, message) == \E k \in 1..Len(words) : Contains(message, words[k])

_classify_brain_region(message) ==
    LET message_lower == Lower(message) IN
    IF AnyWordIn(MemoryWords, message_lower) THEN "TEMPORAL_LOBE"
    ELSE IF AnyWordIn(PersonalWords, message_lower) THEN "OCCIPITAL_LOBE"
    ELSE IF AnyWordIn(TaskWords, message_lower) THEN "PARIETAL_LOBE"
    ELSE IF AnyWordIn(ToolWords, message_lower) THEN "CEREBELLUM"
    ELSE "FRONTAL_LOBE"

(* the region of every message of the model, computed once *)
RegionOf == [message \in Messages |-> _classify_brain_region(message)]

(* _register_default_flows: self.flows, in registration order *)
memory_flow ==
    [flow_id |-> "memory_interaction", flow_name |-> "Memory Interaction",
     flow_type |-> "memory_interaction",
     trigger_patterns |-> <<<<"r", "e", "m", "e", "m", "b", "e", "r">>, <<"m", "e", "m", "o", "r", "y">>, <<"r", "e", "c", "a", "l", "l">>, <<"f", "o", "r", "g", "e", "t">>, <<"b", "r", "a", "i", "n">>>>,
     brain_regions |-> <<"TEMPORAL_LOBE", "FRONTAL_LOBE">>,
     steps |-> <<[type |-> "memory_query",
                  data |-> [query |-> <<"{user_message}">>,
                            brain_region |-> "{brain_region}"]],
                 [type |-> "message",
                  data |-> [template |-> <<"I found some relevant memories. How would you like to proceed?">>]]>>,
     required_context |-> <<>>]
qa_flow ==
    [flow_id |-> "simple_qa", flow_name |-> "Simple Q&A", flow_type |-> "simple_qa",
     trigger_patterns |-> <<<<"w", "h", "a", "t">>, <<"h", "o", "w">>, <<"w", "h", "y">>, <<"w", "h", "e", "n">>, <<"w", "h", "e", "r", "e">>>>,
     brain_regions |-> <<"FRONTAL_LOBE", "TEMPORAL_LOBE">>,
     steps |-> <<[type |-> "message",
                  data |-> [template |-> <<"Let me help you with that question.">>]]>>,
     required_context |-> <<>>]
DefaultFlows == <<memory_flow, qa_flow>>

EmptyDict == [k \in {} |-> 0]
(* dict[key] = value *)
DictSet(d, key, value) == [k \in DOMAIN d \cup {key} |-> IF k = key THEN value ELSE d[k]]

(* list[-n:] *)
NegativeSlice(list, n) ==
    IF n = 0 \/ n >= Len(list) THEN list
    ELSE SubSeq(list, Len(list) - n + 1, Len(list))

(* _add_to_conversation_history *)
_add_to_conversation_history(max, context, role, content, t) ==
    LET message_entry == [role |-> role, content |-> content, timestamp |-> t,
                          brain_region |-> context.brain_region]
        appended == Append(context.conversation_history, message_entry)
    IN [context EXCEPT !.conversation_history =
            IF Len(appended) > max THEN NegativeSlice(appended, max) ELSE appended]

(* the score without the 0.5 of the brain region *)
FlowScoreWithoutRegion(flow, context, message) ==
    LET message_lower == Lower(message) IN
      10 * Cardinality({k \in 1..Len(flow.trigger_patterns) :
                           Contains(message_lower, Lower(flow.trigger_patterns[k]))})
    + (IF \A k \in 1..Len(flow.required_context) :
             flow.required_context[k] \in DOMAIN context.flow_variables
       THEN 3 ELSE 0)

(* the score of one flow, in tenths: 1.0 a trigger, 0.5 the region, 0.3 the context *)
FlowScore(flow, context, message) ==
    LET message_lower == Lower(message) IN
      10 * Cardinality({k \in 1..Len(flow.trigger_patterns) :
                           Contains(message_lower, Lower(flow.trigger_patterns[k]))})
    + (IF \E k \in 1..Len(flow.brain_regions) : flow.brain_regions[k] = context.brain_region
       THEN 5 ELSE 0)
    + (IF \A k \in 1..Len(flow.required_context) :
             flow.required_context[k] \in DOMAIN context.flow_variables
       THEN 3 ELSE 0)

(* the loop of _determine_conversation_flow from flow i on *)
RECURSIVE BestFlow(_, _, _, _, _)
BestFlow(flowList, context, message, i, best) ==
    IF i > Len(flowList) THEN best
    ELSE LET score == FlowScore(flowList[i], context, message) IN
         BestFlow(flowList, context, message, i + 1,
                  IF score > best.confidence /\ score > 5
                  THEN [flow_id |-> flowList[i].flow_id, confidence |-> score]
                  ELSE best)

(* message.lower() raises on a message that is no str, and the except     *)
(* returns no flow                                                         *)
_determine_conversation_flow(flowList, context, message) ==
    IF IsStr(message)
    THEN BestFlow(flowList, context, message, 1, [flow_id |-> None, confidence |-> 0])
    ELSE [flow_id |-> None, confidence |-> 0]

FlowById(flowList, flow_id) ==
    flowList[CHOOSE i \in 1..Len(flowList) : flowList[i].flow_id = flow_id]

(* the default templates name no flow variable: the replacement loop of    *)
(* _execute_message_step leaves them as they are                           *)
RenderTemplate(template, flow_variables) == template

_execute_message_step(max, context, step_data, message, t) ==
    LET response == RenderTemplate(
                        IF "template" \in DOMAIN step_data THEN step_data.template
                        ELSE <<"I understand.">>,
                        context.flow_variables)
    IN [context |-> _add_to_conversation_history(max, context, "assistant", response, t),
        result |-> [success |-> TRUE, response |-> response, step_completed |-> TRUE,
                    next_state |-> "waiting_for_input"]]

_execute_memory_step(context, step_data, message, t) ==
    LET memory_result ==
            [query |-> IF "query" \in DOMAIN step_data THEN step_data.query ELSE message,
             brain_region |-> IF "brain_region" \in DOMAIN step_data
                              THEN step_data.brain_region ELSE context.brain_region,
             results |-> <<>>, timestamp |-> t]
    IN [context |-> [context EXCEPT !.memory_context =
                        DictSet(@, "last_query", memory_result)],
        result |-> [success |-> TRUE, memory_result |-> memory_result,
                    step_completed |-> TRUE, next_state |-> "processing"]]

(* no agent is registered: self.agents stays empty *)
_execute_agent_step(context, step_data, message, t) ==
    [context |-> context,
     result |-> [success |-> FALSE, error |-> "Agent not found", step_completed |-> FALSE]]

_execute_condition_step(context, step_data, message, t) ==
    LET condition == IF "condition" \in DOMAIN step_data THEN step_data.condition ELSE "true"
        condition_result ==
            IF condition = "true" THEN TRUE
            ELSE IF condition = "false" THEN FALSE
            ELSE IF condition = "has_memory" THEN context.memory_context # EmptyDict
            ELSE TRUE
    IN [context |-> context,
        result |-> [success |-> TRUE, condition_result |-> condition_result,
                    step_completed |-> TRUE, next_state |-> "processing"]]

_execute_input_step(context, step_data, message, t) ==
    LET variable_name == IF "variable" \in DOMAIN step_data THEN step_data.variable
                         ELSE "user_input"
    IN [context |-> [context EXCEPT !.flow_variables = DictSet(@, variable_name, message)],
        result |-> [success |-> TRUE, collected_input |-> DictSet(EmptyDict, variable_name, message),
                    step_completed |-> TRUE, next_state |-> "processing"]]

_execute_flow_step(max, context, flow, step, message, t) ==
    LET step_type == IF "type" \in DOMAIN step THEN step.type ELSE "message"
        step_data == IF "data" \in DOMAIN step THEN step.data ELSE EmptyDict
    IN IF step_type = "message" THEN _execute_message_step(max, context, step_data, message, t)
       ELSE IF step_type = "memory_query" THEN _execute_memory_step(context, step_data, message, t)
       ELSE IF step_type = "agent_call" THEN _execute_agent_step(context, step_data, message, t)
       ELSE IF step_type = "condition" THEN _execute_condition_step(context, step_data, message, t)
       ELSE IF step_type = "input_collection" THEN _execute_input_step(context, step_data, message, t)
       ELSE [context |-> context,
             result |-> [success |-> FALSE, error |-> "Unknown step type",
                         step_completed |-> FALSE]]

(* the handlers below give, next to the context and the result, the values *)
(* they assign to context.current_state, in the order of the assignments   *)
_complete_flow(context, flow, t) ==
    LET c1 == [context EXCEPT !.current_state = "completed", !.current_flow = None]
        c2 == IF "flow_start_time" \in DOMAIN c1.flow_variables
              THEN [c1 EXCEPT !.flow_variables =
                        DictSet(@, "flow_duration", t - @["flow_start_time"])]
              ELSE c1
    IN [context |-> c2,
        result |-> [success |-> TRUE, flow_completed |-> TRUE, flow_id |-> flow.flow_id,
                    flow_name |-> flow.flow_name,
                    duration |-> IF "flow_duration" \in DOMAIN c2.flow_variables
                                 THEN c2.flow_variables["flow_duration"] ELSE 0,
                    next_state |-> "idle"],
        states |-> <<"completed">>]

_execute_conversation_flow(max, flowList, context, flow_id, message, t) ==
    LET flow == FlowById(flowList, flow_id)
        c1 == [context EXCEPT !.current_flow = flow_id, !.flow_type = flow.flow_type,
                              !.current_state = "flow_execution"]
        c2 == IF "current_step" \notin DOMAIN c1.flow_variables
              THEN [c1 EXCEPT !.flow_variables =
                        DictSet(DictSet(@, "current_step", 0), "flow_start_time", t)]
              ELSE c1
        current_step == c2.flow_variables["current_step"]
    IN IF current_step >= Len(flow.steps)
       THEN LET r == _complete_flow(c2, flow, t)
            IN [context |-> r.context, result |-> r.result,
                states |-> <<"flow_execution">> \o r.states]
       ELSE LET r == _execute_flow_step(max, c2, flow, flow.steps[current_step + 1], message, t)
            IN [context |-> IF "step_completed" \in DOMAIN r.result /\ r.result.step_completed
                            THEN [r.context EXCEPT !.flow_variables =
                                     DictSet(@, "current_step", @["current_step"] + 1)]
                            ELSE r.context,
                result |-> r.result,
                states |-> <<"flow_execution">>]

DefaultResponse(message) ==
    <<"I understand you said: ">> \o Str(message) \o <<". How can I help you further?">>

_default_message_processing(max, context, message, t) ==
    LET c1 == [context EXCEPT !.current_state = "listening"]
        response == DefaultResponse(message)
    IN [context |-> _add_to_conversation_history(max, c1, "assistant", response, t),
        result |-> [success |-> TRUE, response |-> response, flow_used |-> None,
                    next_state |-> "waiting_for_input"],
        states |-> <<"listening">>]

(* the same, with the announced error state written to the stored sessions *)
SessionNotFoundMarked(table, session_id) ==
    [sessions |-> [s \in 1..Len(table) |-> [table[s] EXCEPT !.current_state = "error"]],
     result |-> [success |-> FALSE, error |-> "Session not found", next_state |-> "error"],
     states |-> <<"error">>]

(* "raise ValueError(f'Session {session_id} not found')" and the except of *)
(* process_message                                                         *)
SessionNotFound(table, session_id) ==
    [sessions |-> table,
     result |-> [success |-> FALSE, error |-> "Session not found", next_state |-> "error"],
     states |-> <<>>]

(* the context written to every session of the table that is in its state *)
StoreContextByState(table, session_id, context) ==
    [s \in 1..Len(table) |->
        IF s = session_id \/ table[s].current_state = table[session_id].current_state
        THEN context ELSE table[s]]

(* "context = self.sessions[session_id]": the handlers assign to the one   *)
(* context object that the table holds under session_id                    *)
StoreContext(table, session_id, context) == [table EXCEPT ![session_id] = context]

(* process_message: the session table after the call, and the result *)
process_message(max, flowList, table, session_id, message, message_type, t) ==
    IF session_id \notin 1..Len(table)
    THEN SessionNotFound(table, session_id)
    ELSE LET c1 == [table[session_id] EXCEPT !.current_state = "processing",
                                             !.updated_at = t]
             c2 == _add_to_conversation_history(max, c1, message_type, message, t)
             flow_result == _determine_conversation_flow(flowList, c2, message)
             r == IF flow_result.flow_id # None
                  THEN _execute_conversation_flow(max, flowList, c2, flow_result.flow_id,
                                                  message, t)
                  ELSE _default_message_processing(max, c2, message, t)
         IN [sessions |-> StoreContext(table, session_id, r.context), result |-> r.result,
             states |-> <<"processing">> \o r.states]

(* start_conversation that puts a continued session back to listening *)
start_conversationResetting(max, table, user_id, initial_message, session_id, t) ==
    LET existing == session_id # NoneId /\ session_id \in 1..Len(table)
        c1 == [session_id |-> IF existing THEN session_id ELSE Len(table) + 1,
               user_id |-> user_id, current_state |-> "listening",
               current_flow |-> IF existing THEN table[session_id].current_flow ELSE None,
               flow_type |-> IF existing THEN table[session_id].flow_type ELSE None,
               brain_region |-> IF existing THEN table[session_id].brain_region
                                ELSE _classify_brain_region(initial_message),
               memory_context |-> IF existing THEN table[session_id].memory_context
                                  ELSE EmptyDict,
               agent_context |-> EmptyDict,
               flow_variables |-> IF existing THEN table[session_id].flow_variables
                                  ELSE EmptyDict,
               conversation_history |-> IF existing
                                        THEN table[session_id].conversation_history
                                        ELSE <<>>,
               created_at |-> IF existing THEN table[session_id].created_at ELSE t,
               updated_at |-> t, metadata |-> EmptyDict]
        c2 == _add_to_conversation_history(max, c1, "user", initial_message, t)
    IN [sessions |-> IF existing THEN [table EXCEPT ![session_id] = c2]
                     ELSE Append(table, c2),
        result |-> c2, states |-> <<"listening">>]

(* start_conversation: the session table after the call, and the context   *)
(* returned.  For a new session _classify_brain_region raises on a message *)
(* that is no str, before the session is stored, and the except re-raises. *)
start_conversation(max, table, user_id, initial_message, session_id, t) ==
    LET existing == session_id # NoneId /\ session_id \in 1..Len(table)
        sid == IF existing THEN session_id ELSE Len(table) + 1
        c1 == IF existing THEN [table[session_id] EXCEPT !.updated_at = t]
              ELSE [session_id |-> sid, user_id |-> user_id, current_state |-> "listening",
                    current_flow |-> None, flow_type |-> None,
                    brain_region |-> _classify_brain_region(initial_message),
                    memory_context |-> EmptyDict, agent_context |-> EmptyDict,
                    flow_variables |-> EmptyDict, conversation_history |-> <<>>,
                    created_at |-> t, updated_at |-> t, metadata |-> EmptyDict]
        c2 == _add_to_conversation_history(max, c1, "user", initial_message, t)
    IN IF ~existing /\ ~IsStr(initial_message)
       THEN [sessions |-> table, result |-> [raised |-> "AttributeError"], states |-> <<>>]
       ELSE [sessions |-> IF existing THEN [table EXCEPT ![sid] = c2] ELSE Append(table, c2),
             result |-> c2,
             states |-> IF existing THEN <<>> ELSE <<"listening">>]

ConvBoundedBy(maxSessions, maxHistoryLen) ==
    /\ Len(sessions) <= maxSessions
    /\ \A s \in 1..Len(sessions) : Len(sessions[s].conversation_history) <= maxHistoryLen
ConvBounded == ConvBoundedBy(MaxSessions, MaxHistoryLen)

StartConversation(user_id, initial_message, session_id) ==
    \E r \in {start_conversation(max_conversation_history, sessions, user_id,
                                 initial_message, session_id, seconds)} :
        /\ sessions' = r.sessions
        /\ convCall' = [op |-> "start_conversation", user_id |-> user_id,
                        initial_message |-> initial_message, session_id |-> session_id]
        /\ convRet' = r.result
        /\ state_changes' = r.states
        /\ UNCHANGED <<max_conversation_history, default_brain_region, flows, seconds,
                       learnVars>>

ProcessMessage(session_id, message, message_type) ==
    \E r \in {process_message(max_conversation_history, flows, sessions, session_id,
                              message, message_type, seconds)} :
        /\ sessions' = r.sessions
        /\ convCall' = [op |-> "process_message", session_id |-> session_id,
                        message |-> message, message_type |-> message_type]
        /\ convRet' = r.result
        /\ state_changes' = r.states
        /\ UNCHANGED <<max_conversation_history, default_brain_region, flows, seconds,
                       learnVars>>

(* a second passes *)
Elapse ==
    /\ seconds < MaxSeconds
    /\ seconds' = seconds + 1
    /\ convCall' = [op |-> "elapse"]
    /\ convRet' = [success |-> TRUE]
    /\ state_changes' = <<>>
    /\ UNCHANGED <<max_conversation_history, default_brain_region, flows, sessions,
                   learnVars>>

InitLearning ==
    /\ patterns = <<>>
    /\ feedback_records = <<>>
    /\ vectorizer = UnfittedVectorizer
    /\ pattern_vectors = NoVectors
    /\ patterns_file = NoFile
    /\ feedback_file = NoFile
    /\ vectorizer_file = NoPickle
    /\ disk_writable = TRUE
    /\ nextId = 1
    /\ clock = 0
    /\ call = [op |-> "init"]
    /\ ret = Returned(NoneId, <<>>)
    /\ threads = [t \in ThreadIds |-> IdleThread]

InitConversation ==
    /\ sessions = <<>>
    /\ flows = DefaultFlows
    /\ seconds = 0
    /\ convCall = [op |-> "init"]
    /\ convRet = [success |-> TRUE]
    /\ state_changes = <<>>

(* config.get('max_conversation_history', 50) *)
DefaultHistoryLimit == 50
(* config.get('default_brain_region', 'FRONTAL_LOBE') *)
DefaultBrainRegion == "FRONTAL_LOBE"

(* both components constructed with their default configuration *)
Init ==
    /\ InitLearning
    /\ InitConversation
    /\ max_conversation_history = DefaultHistoryLimit
    /\ default_brain_region = DefaultBrainRegion

(* the conversation manager constructed with any configured history limit *)
InitAnyHistoryLimit ==
    /\ InitLearning
    /\ InitConversation
    /\ max_conversation_history \in 0..MaxHistoryLimit
    /\ default_brain_region = DefaultBrainRegion

(* the conversation manager constructed with any configured default region *)
ConfiguredRegions == {"FRONTAL_LOBE", "CEREBELLUM"}
InitAnyDefaultRegion ==
    /\ InitLearning
    /\ InitConversation
    /\ max_conversation_history = DefaultHistoryLimit
    /\ default_brain_region \in ConfiguredRegions

KnownIds == {patterns[i].id : i \in 1..Len(patterns)}

(* the bounds a specification keeps the store within *)
BoundedBy(maxPatterns, maxUsage, maxFeedback) ==
    /\ Len(patterns) <= maxPatterns
    /\ Len(feedback_records) <= maxFeedback
    /\ \A i \in 1..Len(patterns) : patterns[i].usage_count <= maxUsage
Bounded(maxPatterns, maxUsage) == BoundedBy(maxPatterns, maxUsage, MaxFeedback)

---------------------------------------------------------------------------
(* SpecLearn: learning alone, over similar and dissimilar texts, two types *)
(* and two regions, above and below the gate                               *)

LearnTexts == {TextA, TextA2, TextB}
LearnKeys == {<<"FRONTAL_LOBE", "conversation">>, <<"FRONTAL_LOBE", "tool_usage">>,
              <<"CEREBELLUM", "conversation">>}
RefusedTexts == {TextA, TextE}

NextLearn ==
    \/ \E c \in LearnTexts, s \in {Tenths(7), Tenths(10)}, k \in LearnKeys :
          Learn(c, "out", s, k[1], k[2]) /\ Bounded(MaxPatterns, MaxUsage)'
    \/ \E c \in RefusedTexts :
          Learn(c, "out", Tenths(5), "FRONTAL_LOBE", "conversation")
    \/ Tick(MaxLearnClock)

SpecLearn == Init /\ [][NextLearn]_vars

---------------------------------------------------------------------------
(* SpecRetrieve: a store of up to MaxRetrievePatterns patterns of two      *)
(* types, queried with and without the filters                             *)

RetrieveTexts == {TextA, TextC}
RetrieveKeys == {<<"FRONTAL_LOBE", "conversation">>, <<"FRONTAL_LOBE", "tool_usage">>}
TypeFilters == {None, "tool_usage"}
RegionFilters == {None, "FRONTAL_LOBE"}
Limits == {1, 2}

NextRetrieve ==
    \/ \E c \in RetrieveTexts, s \in {Tenths(7), Tenths(10)}, k \in RetrieveKeys :
          Learn(c, "out", s, k[1], k[2]) /\ Bounded(MaxRetrievePatterns, MaxRetrieveUsage)'
    \/ \E q \in RetrieveTexts, t \in TypeFilters, r \in RegionFilters, l \in Limits :
          Retrieve(q, t, r, l)

SpecRetrieve == Init /\ [][NextRetrieve]_vars

---------------------------------------------------------------------------
(* SpecFeedback: learning and feedback with scores over their whole ranges, *)
(* with and without a correction, on stored and on unknown pattern ids      *)

FeedbackTexts == {TextA, TextE}
FeedbackLearnScores == {Tenths(0), Tenths(7), Tenths(10)}
FeedbackTypeOf(feedback_score, corrected_output) ==
    IF Truthy(corrected_output) THEN "correction"
    ELSE IF feedback_score > 0 THEN "positive" ELSE "negative"
(* a pattern_id that is no key of self.patterns *)
UnknownId == 99

NextFeedback ==
    \/ \E c \in FeedbackTexts, s \in FeedbackLearnScores :
          Learn(c, "out", s, "FRONTAL_LOBE", "conversation")
             /\ Bounded(MaxPatterns, MaxUsage)'
    \/ \E id \in KnownIds, f \in FeedbackScores, c \in Corrections :
          Feedback(id, FeedbackTypeOf(f, c), f, c) /\ Bounded(MaxPatterns, MaxUsage)'
    \/ Feedback(UnknownId, "correction", Tenths(10), "fixed")
          /\ Bounded(MaxPatterns, MaxUsage)'

SpecFeedback == Init /\ [][NextFeedback]_vars

---------------------------------------------------------------------------
(* SpecCleanup: patterns that age, are used again and are rated down, the  *)
(* cleanup, and the restart of the process over the files                  *)

CleanupTexts == {TextC, TextE}

NextCleanup ==
    \/ \E c \in CleanupTexts :
          Learn(c, "out", Tenths(7), "FRONTAL_LOBE", "conversation")
             /\ BoundedBy(MaxPatterns, MaxCleanupUsage, MaxCleanupFeedback)'
    \/ \E id \in KnownIds :
          Feedback(id, "negative", Tenths(-10), None)
             /\ BoundedBy(MaxPatterns, MaxCleanupUsage, MaxCleanupFeedback)'
    \/ Tick(MaxClock)
    \/ Cleanup
    \/ Restart

SpecCleanup == Init /\ [][NextCleanup]_vars

---------------------------------------------------------------------------
(* SpecLoad: files with damaged records, read by a process that starts     *)

LoadTexts == {TextA, TextC}

(* uuid4() has handed out at most MaxLoadIds ids *)
LoadBounded ==
    /\ BoundedBy(MaxPatterns, MaxLoadUsage, MaxFeedback)
    /\ nextId <= MaxLoadIds + 1

NextLoad ==
    \/ \E c \in LoadTexts :
          Learn(c, "out", Tenths(7), "FRONTAL_LOBE", "conversation") /\ LoadBounded'
    \/ \E id \in KnownIds :
          Feedback(id, "negative", Tenths(-10), None) /\ LoadBounded'
    \/ \E i \in 1..MaxPatterns : DamagePatternsFile(i)
    \/ \E i \in 1..MaxFeedback : DamageFeedbackFile(i)
    \/ Restart

SpecLoad == Init /\ [][NextLoad]_vars

---------------------------------------------------------------------------
(* SpecSave: learning and feedback while the data directory is, at times,  *)
(* not writable                                                            *)

NextSave ==
    \/ \E c \in LoadTexts, s \in {Tenths(5), Tenths(7)} :
          Learn(c, "out", s, "FRONTAL_LOBE", "conversation") /\ LoadBounded'
    \/ \E id \in KnownIds \cup {UnknownId}, c \in Corrections :
          Feedback(id, FeedbackTypeOf(Tenths(10), c), Tenths(10), c) /\ LoadBounded'
    \/ \E w \in BOOLEAN : SetWritable(w)
    \/ Restart

SpecSave == Init /\ [][NextSave]_vars

---------------------------------------------------------------------------
(* SpecApi: learn and feedback requests with scores inside, at the ends of *)
(* and outside their ranges, and with feedback types the API does not know *)

ApiSuccessScores == {Tenths(-1), Tenths(0), Tenths(7), Tenths(10), Tenths(11)}
ApiFeedbackScores == {Tenths(-11), Tenths(-10), Tenths(10), Tenths(11)}
ApiFeedbackTypes == {"positive", "neutral"}
ApiTexts == {TextC}

NextApi ==
    \/ \E c \in ApiTexts, s \in ApiSuccessScores :
          ApiLearn(c, "out", s, "FRONTAL_LOBE", "conversation")
             /\ Bounded(MaxPatterns, MaxUsage)'
    \/ \E id \in KnownIds \cup {UnknownId}, t \in ApiFeedbackTypes,
          f \in ApiFeedbackScores, c \in Corrections :
          ApiFeedback(id, t, f, c) /\ Bounded(MaxPatterns, MaxUsage)'

SpecApi == Init /\ [][NextApi]_vars

---------------------------------------------------------------------------
(* SpecThreads: two request threads that learn near-duplicate contexts of  *)
(* one pattern_type and brain_region, above the gate, on an empty store    *)

ThreadTexts == {TextA, TextA2}
ThreadScores == {Tenths(7), Tenths(10)}

NextThreads ==
    \/ \E t \in ThreadIds, c \in ThreadTexts, s \in ThreadScores : BeginLearn(t, c, s)
    \/ \E t \in ThreadIds : FindSimilar(t, "FRONTAL_LOBE", "conversation")
    \/ \E t \in ThreadIds : UpdateSimilar(t)
    \/ \E t \in ThreadIds : InsertPattern(t, "out", "FRONTAL_LOBE", "conversation")
    \/ \E t \in ThreadIds : RebuildIndex(t)
    \/ \E t \in ThreadIds : SavePatterns(t)

SpecThreads == Init /\ [][NextThreads]_vars

---------------------------------------------------------------------------
(* SpecConversation: sessions started and continued, messages that select  *)
(* either flow or none, under every configured history limit               *)

SessionIds == 1..MaxSessions
UnknownSession == 9

NextConversation ==
    \/ \E m \in Messages \cup {MsgNumber}, sid \in {NoneId} \cup SessionIds :
          StartConversation("user", m, sid) /\ ConvBounded'
    \/ \E sid \in SessionIds \cup {UnknownSession}, m \in Messages \cup {MsgNumber} :
          ProcessMessage(sid, m, "user") /\ ConvBounded'
    \/ Elapse

SpecConversation == InitAnyHistoryLimit /\ [][NextConversation]_vars

---------------------------------------------------------------------------
(* SpecRegions: one session under either configured default region,        *)
(* started and continued with messages that have words of no, one and two  *)
(* keyword buckets                                                         *)

RegionMessages == {MsgWhat, MsgApi, MsgMyMemory, MsgMyTask, MsgApiNow}

NextRegions ==
    \/ \E m \in RegionMessages, sid \in {NoneId} \cup SessionIds :
          StartConversation("user", m, sid) /\ ConvBounded'
    \/ \E sid \in SessionIds, m \in RegionMessages :
          ProcessMessage(sid, m, "user") /\ ConvBounded'

SpecRegions == InitAnyDefaultRegion /\ [][NextRegions]_vars

---------------------------------------------------------------------------
(* SpecSessions: two sessions side by side under the default history       *)
(* limit, started, continued and addressed by ids that name no session     *)

PairMessages == {MsgApi, MsgWhat}
PairIds == 1..MaxSessionPair

NextSessions ==
    \/ \E m \in PairMessages, sid \in {NoneId, UnknownSession} \cup PairIds :
          StartConversation("user", m, sid) /\ ConvBoundedBy(MaxSessionPair, MaxPairHistoryLen)'
    \/ \E sid \in PairIds \cup {UnknownSession}, m \in PairMessages :
          ProcessMessage(sid, m, "user") /\ ConvBoundedBy(MaxSessionPair, MaxPairHistoryLen)'

SpecSessions == Init /\ [][NextSessions]_vars

---------------------------------------------------------------------------
(* Claims about learn_from_interaction *)

StoreVars == <<patterns, feedback_records, vectorizer, pattern_vectors,
               patterns_file, feedback_file, vectorizer_file>>

LearnCalled == call'.op = "learn"
LearnCalledAboveGate == LearnCalled /\ call'.success_score >= Tenths(7)

(* C1: a learn_from_interaction call whose success_score is below          *)
(* min_success_score returns no pattern id and leaves the stored patterns, *)
(* every field of them, the similarity index and the files unchanged.      *)
C1_SignificanceGate ==
    [][(LearnCalled /\ call'.success_score < Tenths(7))
          => (ret'.id = NoneId /\ UNCHANGED StoreVars)]_vars

(* a learn was refused on a store that holds patterns *)
C1_Witness ==
    /\ call.op = "learn"
    /\ call.success_score < Tenths(7)
    /\ ret.id = NoneId
    /\ Len(patterns) >= 1

(* the cosine of the two texts is at least 0.8 / is above 0.8 *)
SimilarityAtLeast(text1, text2) ==
    LET sim == _calculate_text_similarity(text1, text2)
    IN sim[1] * 25 >= sim[2] * 16
SimilarityAbove(text1, text2) ==
    LET sim == _calculate_text_similarity(text1, text2)
    IN sim[1] * 25 > sim[2] * 16

(* the store holds exactly the pattern a first learn has created *)
FirstLearned ==
    /\ call.op = "learn"
    /\ Len(patterns) = 1
    /\ patterns[1].usage_count = 1

SecondLearnSameKey ==
    /\ FirstLearned
    /\ LearnCalledAboveGate
    /\ call'.pattern_type = patterns[1].pattern_type
    /\ call'.brain_region = patterns[1].brain_region

MergedIntoOne ==
    /\ Len(patterns') = 1
    /\ patterns'[1].usage_count = 2

C3_Upsert ==
    [][LearnCalledAboveGate =>
         LET c == call'.input_context
             s == call'.success_score
             S == {i \in 1..Len(patterns) :
                      /\ patterns[i].pattern_type = call'.pattern_type
                      /\ patterns[i].brain_region = call'.brain_region
                      /\ SimilarityAbove(c, patterns[i].input_context)}
             n == Len(patterns)
         IN IF S # {}
            THEN \E i \in S :
                    /\ ret'.id = patterns[i].id
                    /\ Len(patterns') = n
                    /\ patterns'[i] =
                          [patterns[i] EXCEPT
                              !.usage_count = @ + 1,
                              !.effectiveness_score = (@ * 9 + s) \div 10,
                              !.last_used = clock]
                    /\ \A j \in (1..n) \ {i} : patterns'[j] = patterns[j]
            ELSE /\ ret'.id # NoneId
                 /\ \A j \in 1..n : patterns[j].id # ret'.id
                 /\ Len(patterns') = n + 1
                 /\ \A j \in 1..n : patterns'[j] = patterns[j]
                 /\ patterns'[n + 1].id = ret'.id
                 /\ patterns'[n + 1].input_context = c
                 /\ patterns'[n + 1].pattern_type = call'.pattern_type
                 /\ patterns'[n + 1].brain_region = call'.brain_region
                 /\ patterns'[n + 1].effectiveness_score = s
                 /\ patterns'[n + 1].success_score = s
                 /\ patterns'[n + 1].usage_count = 1]_vars

(* an update next to a pattern with a similar context in another region or *)
(* of another type, which stayed as it was created                         *)
C3_Witness ==
    /\ call.op = "learn"
    /\ \E i, j \in 1..Len(patterns) :
          /\ i # j
          /\ ret.id = patterns[i].id
          /\ patterns[i].usage_count = 2
          /\ patterns[i].effectiveness_score # patterns[i].success_score
          /\ patterns[j].usage_count = 1
          /\ SimilarityAbove(call.input_context, patterns[j].input_context)

---------------------------------------------------------------------------
(* Claims about retrieve_relevant_patterns *)

(* the similarity of the query to a pattern's own input_context, by the   *)
(* measure the call uses: the index when there is one, word overlap else  *)
OwnSimilarity(query_context, p) ==
    IF pattern_vectors.present
    THEN cosine_similarity(Transform(vectorizer.vocab, query_context),
                           Transform(vectorizer.vocab, p.input_context))
    ELSE WordOverlap(query_context, p.input_context)

OwnScore(query_context, p) ==
    CombinedScore(OwnSimilarity(query_context, p), p.effectiveness_score)

(* C4: retrieve_relevant_patterns returns, of the patterns that pass the   *)
(* pattern_type and brain_region filters, the `limit` ones whose score     *)
(* 0.7 * similarity(query, own input_context) + 0.3 * effectiveness_score  *)
(* is highest, in non-increasing order of that score.                      *)
C4_RetrievalRanking ==
    call.op = "retrieve" =>
        LET q == call.query_context
            cands == {patterns[i] : i \in {j \in 1..Len(patterns) :
                         PassesFilter(patterns[j], call.pattern_type, call.brain_region)}}
            got == ret.patterns
        IN /\ Len(got) = Min(call.limit, Cardinality(cands))
           /\ \A k \in 1..Len(got) : got[k] \in cands
           /\ \A k, m \in 1..Len(got) : k # m => got[k] # got[m]
           /\ \A k \in 1..(Len(got) - 1) : OwnScore(q, got[k]) >= OwnScore(q, got[k + 1])
           /\ \A p \in cands \ Range(got) :
                 \A k \in 1..Len(got) : OwnScore(q, got[k]) >= OwnScore(q, p)

(* the same for the calls that give no filter *)
C4_RankingWithoutFilter ==
    (call.op = "retrieve" /\ call.pattern_type = None /\ call.brain_region = None)
        => C4_RetrievalRanking

---------------------------------------------------------------------------
(* Claims about record_feedback *)

(* the last call was a record_feedback on a stored pattern, with a         *)
(* correction and a feedback_score > 0 that lifts the correction over the  *)
(* significance gate                                                       *)
CorrectionGiven ==
    /\ call.op = "feedback"
    /\ call.pattern_id \in KnownIds
    /\ Truthy(call.corrected_output)
    /\ call.feedback_score > 0
    /\ Min(Scale, call.feedback_score + Tenths(5)) >= min_success_score

(* C5: after a record_feedback on a stored pattern with a corrected_output *)
(* and a feedback_score > 0 (the correction passing the gate), some stored *)
(* pattern has the corrected_output as its successful_output.              *)
C5_CorrectionLearned ==
    CorrectionGiven =>
        \E i \in 1..Len(patterns) : patterns[i].successful_output = call.corrected_output

(* C10: every stored pattern's effectiveness_score and success_score lie   *)
(* in [0, 1], whatever learn_from_interaction calls with a success_score   *)
(* in [0, 1] and record_feedback calls with a feedback_score in [-1, 1],   *)
(* with or without a correction, have been made.                           *)
C10_ScoreBounds ==
    \A i \in 1..Len(patterns) :
        /\ 0 <= patterns[i].effectiveness_score
        /\ patterns[i].effectiveness_score <= Scale
        /\ 0 <= patterns[i].success_score
        /\ patterns[i].success_score <= Scale

(* the extreme feedback 1.0 with a correction has been recorded on a       *)
(* pattern learned at 1.0, after the extreme feedback -1.0                 *)
C10_Witness ==
    /\ CorrectionGiven
    /\ call.feedback_score = Scale
    /\ Len(feedback_records) = 2
    /\ feedback_records[1].feedback_score = -Scale
    /\ \E i \in 1..Len(patterns) :
          /\ patterns[i].id = call.pattern_id
          /\ patterns[i].success_score = Scale
          /\ patterns[i].usage_count = 2

---------------------------------------------------------------------------
(* Claims about cleanup_old_patterns and the files *)

(* created more than pattern_decay_days ago, effectiveness_score < 0.5,    *)
(* usage_count < 3                                                         *)
OldIneffectiveUnused(p) ==
    /\ p.created_at + pattern_decay_days < clock
    /\ p.effectiveness_score * 2 < Scale
    /\ p.usage_count < 3

RetrieveArguments == Texts \X {None} \X {None} \X {1, 2}

(* C9: a fresh adapter constructed over the files holds the patterns and   *)
(* the feedback records of the running one, fields and order included, and *)
(* returns the same ranked patterns for the same query.                    *)
C9_RoundTrip ==
    \A resets \in BOOLEAN :
        LET fresh == NewAdapter(Adapter, resets)
        IN /\ fresh.patterns = patterns
           /\ fresh.feedback_records = feedback_records
           /\ \A a \in RetrieveArguments :
                 retrieve_relevant_patterns(fresh, a[1], a[2], a[3], a[4])
                    = retrieve_relevant_patterns(Adapter, a[1], a[2], a[3], a[4])

(* the files alone: they describe the collections in memory *)
C9_FilesDescribeMemory ==
    /\ _load_patterns(patterns_file) = patterns
    /\ _load_feedback(feedback_file) = feedback_records

---------------------------------------------------------------------------
(* Claims about the conversation manager *)

StepCompleted(result) == "step_completed" \in DOMAIN result /\ result.step_completed

(* the last call was process_message on session s, it selected flow_id     *)
(* and its step completed; every earlier step of the session was run under *)
(* the same flow; the flow's steps have now all been run                   *)
LastStepOfFlowDone(s, flow_id) ==
    /\ convCall'.op = "process_message"
    /\ convCall'.session_id = s
    /\ _determine_conversation_flow(flows, sessions[s], convCall'.message).flow_id = flow_id
    /\ StepCompleted(convRet')
    /\ \/ "current_step" \notin DOMAIN sessions[s].flow_variables
       \/ sessions[s].current_flow = flow_id
    /\ sessions'[s].flow_variables["current_step"] = Len(FlowById(flows, flow_id).steps)

(* C6: when the N-th process_message call that selects a flow of N steps   *)
(* returns step_completed, the session is left completed, with no current  *)
(* flow and a flow_duration >= 0 in its flow_variables.                    *)
C6_FlowCompletion ==
    [][\A s \in 1..Len(sessions) : \A k \in 1..Len(flows) :
          LastStepOfFlowDone(s, flows[k].flow_id) =>
              /\ sessions'[s].current_state = "completed"
              /\ sessions'[s].current_flow = None
              /\ "flow_duration" \in DOMAIN sessions'[s].flow_variables
              /\ sessions'[s].flow_variables["flow_duration"] >= 0]_vars

(* what the code does instead: the flow is completed by the next call that *)
(* selects a flow, which runs no step                                      *)
C6_CompletedByNextCall ==
    [][\A s \in 1..Len(sessions) :
          (/\ convCall'.op = "process_message"
           /\ convCall'.session_id = s
           /\ "flow_completed" \in DOMAIN convRet')
          => /\ "current_step" \in DOMAIN sessions[s].flow_variables
             /\ sessions[s].flow_variables["current_step"] >=
                   Len(FlowById(flows, convRet'.flow_id).steps)
             /\ sessions'[s].current_state = "completed"
             /\ sessions'[s].current_flow = None
             /\ sessions'[s].flow_variables["flow_duration"] >= 0
             /\ sessions'[s].conversation_history =
                   NegativeSlice(Append(sessions[s].conversation_history,
                                        sessions'[s].conversation_history[
                                            Len(sessions'[s].conversation_history)]),
                                 max_conversation_history)]_vars

(* C7: under every configured max_conversation_history, a session's        *)
(* conversation_history never holds more than max_conversation_history     *)
(* entries.                                                                *)
C7_HistoryBound ==
    \A s \in 1..Len(sessions) :
        Len(sessions[s].conversation_history) <= max_conversation_history

(* the last n entries of a list, n >= 0 *)
LastEntries(list, n) ==
    IF Len(list) <= n THEN list ELSE SubSeq(list, Len(list) - n + 1, Len(list))

(* the entries a call appends: the message, then the response if any *)
EntriesOf(s) ==
    LET c == sessions'[s]
        said == IF convCall'.op = "start_conversation"
                THEN <<[role |-> "user", content |-> convCall'.initial_message,
                        timestamp |-> seconds, brain_region |-> c.brain_region]>>
                ELSE <<[role |-> convCall'.message_type, content |-> convCall'.message,
                        timestamp |-> seconds, brain_region |-> c.brain_region]>>
        answered == IF convCall'.op = "process_message" /\ "response" \in DOMAIN convRet'
                    THEN <<[role |-> "assistant", content |-> convRet'.response,
                            timestamp |-> seconds, brain_region |-> c.brain_region]>>
                    ELSE <<>>
    IN said \o answered

(* the rest of C7, for a limit of at least 1: after every call the history *)
(* is the most recent max_conversation_history entries, in order           *)
C7_RetainsMostRecent ==
    [][\A s \in 1..Len(sessions') :
          (/\ max_conversation_history >= 1
           /\ convCall'.op \in {"start_conversation", "process_message"}
           /\ sessions' # sessions
           /\ s \in 1..Len(sessions) => sessions'[s] # sessions[s])
          => sessions'[s].conversation_history =
                LastEntries((IF s \in 1..Len(sessions)
                             THEN sessions[s].conversation_history ELSE <<>>)
                            \o EntriesOf(s),
                            max_conversation_history)]_vars

C7_BoundedWhenPositive ==
    max_conversation_history >= 1 => C7_HistoryBound

---------------------------------------------------------------------------
(* Claims about the states of a session *)

(* the edges idle -> listening -> processing -> {flow_execution |          *)
(* waiting_for_input} -> completed                                         *)
StateEdges ==
    {<<"idle", "listening">>, <<"listening", "processing">>,
     <<"processing", "flow_execution">>, <<"processing", "waiting_for_input">>,
     <<"flow_execution", "completed">>, <<"waiting_for_input", "completed">>}

FollowsEdge(from, to) == from = to \/ <<from, to>> \in StateEdges \/ to = "error"

(* the session the call of this step works on, 0 when there is none *)
SessionOfCall ==
    IF convCall'.op = "process_message"
    THEN IF convCall'.session_id \in 1..Len(sessions) THEN convCall'.session_id ELSE 0
    ELSE IF convCall'.op = "start_conversation"
    THEN IF convCall'.session_id \in 1..Len(sessions) THEN convCall'.session_id
         ELSE IF Len(sessions') > Len(sessions) THEN Len(sessions') ELSE 0
    ELSE 0

(* the values current_state takes during the call of this step: the state  *)
(* the session was in, if it existed, then every value assigned            *)
StatePath ==
    (IF SessionOfCall \in 1..Len(sessions)
     THEN <<sessions[SessionOfCall].current_state>> ELSE <<>>) \o state_changes'

(* C11: every change of a session's current_state made by                  *)
(* start_conversation or process_message follows an edge of idle ->        *)
(* listening -> processing -> {flow_execution | waiting_for_input} ->      *)
(* completed, or goes to error; and the state a session is left in is      *)
(* never agent_handoff or memory_retrieval.                                *)
C11_StateMachine ==
    [][SessionOfCall # 0 =>
          /\ \A k \in 1..(Len(StatePath) - 1) : FollowsEdge(StatePath[k], StatePath[k + 1])
          /\ sessions'[SessionOfCall].current_state
                \notin {"agent_handoff", "memory_retrieval"}]_vars

(* the second half of C11 alone *)
C11_NoTransientStateObserved ==
    \A s \in 1..Len(sessions) :
        sessions[s].current_state \notin {"agent_handoff", "memory_retrieval"}

(* the changes the code makes: process_message enters processing from      *)
(* whatever state the session is in, and leaves it for flow_execution      *)
(* (and from there for completed) or back for listening                    *)
CodeEdges ==
    {<<"listening", "processing">>, <<"flow_execution", "processing">>,
     <<"completed", "processing">>, <<"processing", "flow_execution">>,
     <<"flow_execution", "completed">>, <<"processing", "listening">>}
C11_ChangesOfTheCode ==
    [][SessionOfCall # 0 =>
          \A k \in 1..(Len(StatePath) - 1) :
              <<StatePath[k], StatePath[k + 1]>> \in CodeEdges]_vars

(* the call of this step is a process_message on a stored session whose   *)
(* flow determination raises (the message is no str) or whose flow step   *)
(* fails                                                                   *)
StepFailed(result) == "step_completed" \in DOMAIN result /\ ~result.step_completed
DeterminationOrStepFails ==
    /\ convCall'.op = "process_message"
    /\ convCall'.session_id \in 1..Len(sessions)
    /\ ~IsStr(convCall'.message) \/ StepFailed(convRet')

(* C12: when flow determination raises or the execution of the current     *)
(* flow step fails, process_message leaves the session in the error state  *)
(* and returns the error message; the session stays in the session table.  *)
C12_ErrorTransition ==
    [][DeterminationOrStepFails =>
          /\ Len(sessions') = Len(sessions)
          /\ sessions'[convCall'.session_id].current_state = "error"
          /\ ~convRet'.success
          /\ "error" \in DOMAIN convRet']_vars

(* what the code does on a message that is no str: the default response    *)
(* is given as for a message that selects no flow, and the session stays   *)
C12_DeterminationFailureAnswered ==
    [][DeterminationOrStepFails =>
          /\ Len(sessions') = Len(sessions)
          /\ sessions'[convCall'.session_id].current_state = "listening"
          /\ convRet'.success
          /\ convRet'.response = DefaultResponse(convCall'.message)]_vars

---------------------------------------------------------------------------
(* Claims about the choice of a flow *)

(* the call of this step is a process_message with a str message on the    *)
(* stored session s                                                        *)
MessageProcessedOn(s) ==
    /\ convCall'.op = "process_message"
    /\ convCall'.session_id = s
    /\ s \in 1..Len(sessions)
    /\ IsStr(convCall'.message)

(* the score of the specification, in tenths: 1.0 for every trigger that   *)
(* the lower-cased message contains, 0.5 for the brain region, 0.3 when    *)
(* every required_context key is in flow_variables                         *)
ScoreOfSpec(flow, context, message) ==
    LET triggers == {k \in 1..Len(flow.trigger_patterns) :
                        Contains(Lower(message), flow.trigger_patterns[k])}
        region == context.brain_region \in Range(flow.brain_regions)
        required == Range(flow.required_context) \subseteq DOMAIN context.flow_variables
    IN 10 * Cardinality(triggers) + (IF region THEN 5 ELSE 0) + (IF required THEN 3 ELSE 0)

MaxScoreOfSpec(context, message) ==
    CHOOSE m \in {ScoreOfSpec(flows[k], context, message) : k \in 1..Len(flows)} :
        \A k \in 1..Len(flows) : ScoreOfSpec(flows[k], context, message) <= m

(* the flow the call of this step ran: none for the default response, the  *)
(* flow it completed, or the flow it left as the session's current flow    *)
FlowRun(s) ==
    IF "flow_used" \in DOMAIN convRet' THEN None
    ELSE IF "flow_completed" \in DOMAIN convRet' THEN convRet'.flow_id
    ELSE sessions'[s].current_flow

(* C13: when no registered flow scores above 0.5 for the message,          *)
(* process_message returns the default acknowledgement, selects no flow    *)
(* (current_flow and flow_variables unchanged) and leaves the session in   *)
(* the state waiting_for_input.                                            *)
C13_DefaultFallback ==
    [][\A s \in 1..Len(sessions) :
          (MessageProcessedOn(s) /\ MaxScoreOfSpec(sessions[s], convCall'.message) <= 5)
          => /\ convRet'.success
             /\ convRet'.response = DefaultResponse(convCall'.message)
             /\ sessions'[s].current_flow = sessions[s].current_flow
             /\ sessions'[s].flow_variables = sessions[s].flow_variables
             /\ sessions'[s].current_state = "waiting_for_input"]_vars

(* the same with the state the code leaves: listening, next to a result    *)
(* that announces waiting_for_input                                        *)
C13_DefaultLeavesListening ==
    [][\A s \in 1..Len(sessions) :
          (MessageProcessedOn(s) /\ MaxScoreOfSpec(sessions[s], convCall'.message) <= 5)
          => /\ convRet'.success
             /\ convRet'.response = DefaultResponse(convCall'.message)
             /\ convRet'.next_state = "waiting_for_input"
             /\ sessions'[s].current_flow = sessions[s].current_flow
             /\ sessions'[s].flow_variables = sessions[s].flow_variables
             /\ sessions'[s].current_state = "listening"]_vars

(* C14: for every message and session each registered flow is scored as    *)
(* (number of its triggers contained in the lower-cased message) * 1.0     *)
(* + 0.5 if the session's brain_region is one of the flow's + 0.3 if every *)
(* required_context key is in flow_variables; process_message runs a flow  *)
(* whose score is maximal when that maximum exceeds 0.5, and no flow       *)
(* otherwise.                                                              *)
C14_FlowDetermination ==
    [][\A s \in 1..Len(sessions) :
          MessageProcessedOn(s) =>
             LET best == MaxScoreOfSpec(sessions[s], convCall'.message)
             IN IF best > 5
                THEN \E k \in 1..Len(flows) :
                        /\ flows[k].flow_id = FlowRun(s)
                        /\ ScoreOfSpec(flows[k], sessions[s], convCall'.message) = best
                ELSE FlowRun(s) = None]_vars

(* the second registered flow was chosen by its trigger alone, in a        *)
(* session whose brain region no flow lists, over a flow that scored 0.3   *)
C14_Witness ==
    /\ convCall.op = "process_message"
    /\ convCall.session_id \in 1..Len(sessions)
    /\ convCall.message = MsgWhat
    /\ sessions[convCall.session_id].brain_region = "CEREBELLUM"
    /\ sessions[convCall.session_id].current_flow = "simple_qa"

---------------------------------------------------------------------------
(* Claims about the session table *)

StartCalled == convCall'.op = "start_conversation" /\ IsStr(convCall'.initial_message)

(* the history entry of the message the call of this step starts with *)
StartEntry(region) ==
    [role |-> "user", content |-> convCall'.initial_message, timestamp |-> seconds,
     brain_region |-> region]

(* C15: start_conversation with the session_id of a stored session creates *)
(* no session and leaves that session's current_state, current_flow,       *)
(* brain_region and flow_variables unchanged, the message only being       *)
(* appended to its history; otherwise exactly one session is created,      *)
(* listening, with no current flow, empty flow_variables, the brain_region *)
(* classified from the message and a history of exactly that message.      *)
(* No session is ever removed, and no other session is touched.            *)
C15_StartConversation ==
    [][/\ Len(sessions') >= Len(sessions)
       /\ \A s \in 1..Len(sessions) : sessions'[s].session_id = sessions[s].session_id
       /\ StartCalled =>
            LET sid == convCall'.session_id
                n == Len(sessions)
            IN IF sid \in 1..n
               THEN /\ Len(sessions') = n
                    /\ \A s \in (1..n) \ {sid} : sessions'[s] = sessions[s]
                    /\ sessions'[sid].current_state = sessions[sid].current_state
                    /\ sessions'[sid].current_flow = sessions[sid].current_flow
                    /\ sessions'[sid].brain_region = sessions[sid].brain_region
                    /\ sessions'[sid].flow_variables = sessions[sid].flow_variables
                    /\ sessions'[sid].conversation_history =
                          Append(sessions[sid].conversation_history,
                                 StartEntry(sessions[sid].brain_region))
               ELSE /\ Len(sessions') = n + 1
                    /\ \A s \in 1..n : sessions'[s] = sessions[s]
                    /\ sessions'[n + 1].current_state = "listening"
                    /\ sessions'[n + 1].current_flow = None
                    /\ sessions'[n + 1].flow_variables = EmptyDict
                    /\ sessions'[n + 1].brain_region =
                          _classify_brain_region(convCall'.initial_message)
                    /\ sessions'[n + 1].conversation_history =
                          <<StartEntry(_classify_brain_region(convCall'.initial_message))>>]_vars

(* a session that is executing a flow was continued by start_conversation, *)
(* next to a second session, and is still executing it                     *)
C15_Witness ==
    /\ convCall.op = "start_conversation"
    /\ Len(sessions) = 2
    /\ convCall.session_id \in 1..Len(sessions)
    /\ sessions[convCall.session_id].current_state = "flow_execution"
    /\ sessions[convCall.session_id].current_flow = "simple_qa"
    /\ Len(sessions[convCall.session_id].conversation_history) = 4

(* C17: process_message with a session_id that is not in the session table *)
(* returns success=False with an error message and next_state 'error',     *)
(* creates no session and leaves every stored session's context unchanged. *)
C17_SessionNotFound ==
    [][(convCall'.op = "process_message" /\ convCall'.session_id \notin 1..Len(sessions))
          => /\ ~convRet'.success
             /\ "error" \in DOMAIN convRet'
             /\ convRet'.next_state = "error"
             /\ sessions' = sessions]_vars

(* an unknown session was addressed while two sessions are stored, one of  *)
(* them executing a flow                                                   *)
C17_Witness ==
    /\ convCall.op = "process_message"
    /\ convCall.session_id = UnknownSession
    /\ ~convRet.success
    /\ Len(sessions) = 2
    /\ \E s \in 1..Len(sessions) : sessions[s].current_state = "flow_execution"

---------------------------------------------------------------------------
(* Further claims about record_feedback *)

FeedbackCalledOn(known) ==
    /\ call'.op = "feedback"
    /\ (call'.pattern_id \in KnownIds) = known

(* C16: a record_feedback call whose pattern_id names no stored pattern is *)
(* reported to the caller as a failure and leaves the feedback records and *)
(* the patterns unchanged, in memory and in the files.                     *)
C16_UnknownPatternNoOp ==
    [][FeedbackCalledOn(FALSE) =>
          /\ ret'.id = NoneId
          /\ feedback_records' = feedback_records
          /\ feedback_file' = feedback_file
          /\ patterns' = patterns
          /\ patterns_file.exists => patterns_file' = patterns_file]_vars

(* what the code does: the record is stored and saved under a fresh id,    *)
(* which is returned; the patterns stay                                    *)
C16_UnknownPatternRecorded ==
    [][FeedbackCalledOn(FALSE) =>
          /\ ret'.id # NoneId
          /\ Len(feedback_records') = Len(feedback_records) + 1
          /\ feedback_records'[Len(feedback_records')].id = ret'.id
          /\ feedback_records'[Len(feedback_records')].pattern_id = call'.pattern_id
          /\ feedback_file'.data = feedback_records'
          /\ patterns' = patterns]_vars

(* old * 0.8 + ((f + 1) / 2) * 0.2 *)
BlendOfSpec(old, f) == (old * 8 + ((f + Scale) \div 2) * 2) \div 10

(* the feedback of this step carries a correction that is learned again:   *)
(* corrected_output given, feedback_score > 0, and min(1, score + 0.5) not *)
(* below the significance gate                                             *)
CorrectionRelearned ==
    /\ Truthy(call'.corrected_output)
    /\ call'.feedback_score > 0
    /\ Min(Scale, call'.feedback_score + Tenths(5)) >= min_success_score

(* C20: after one record_feedback call with feedback_score f on a stored   *)
(* pattern, that pattern's effectiveness_score is old*0.8 + ((f+1)/2)*0.2, *)
(* with or without a corrected_output, and its usage_count is unchanged.   *)
C20_FeedbackBlend ==
    [][FeedbackCalledOn(TRUE) =>
          LET i == PositionOf(patterns, call'.pattern_id)
          IN /\ patterns'[i].effectiveness_score =
                   BlendOfSpec(patterns[i].effectiveness_score, call'.feedback_score)
             /\ patterns'[i].usage_count = patterns[i].usage_count]_vars

(* the same for the feedback that is not learned again *)
C20_BlendWithoutRelearning ==
    [][(FeedbackCalledOn(TRUE) /\ ~CorrectionRelearned) =>
          LET i == PositionOf(patterns, call'.pattern_id)
          IN /\ patterns'[i].effectiveness_score =
                   BlendOfSpec(patterns[i].effectiveness_score, call'.feedback_score)
             /\ patterns'[i].usage_count = patterns[i].usage_count]_vars

---------------------------------------------------------------------------
(* Claims about the files *)

(* C18: when the patterns file or the feedback file holds a list in which  *)
(* some records are malformed, loading at startup does not fail and every  *)
(* well-formed record of the file is loaded, whatever its position         *)
(* relative to the malformed ones.                                         *)
C18_MalformedSkipped ==
    [][call'.op = "restart" =>
          /\ patterns' = _load_patternsSkipping(patterns_file)
          /\ feedback_records' = SelectSeq(feedback_file.data, WellFormedFeedback)]_vars

(* what the code does: the records before the first malformed one are     *)
(* loaded, the well-formed ones after it are not                           *)
C18_LoadedUpToFirstMalformed ==
    [][call'.op = "restart" =>
          /\ \E n \in 0..Len(patterns_file.data) :
                /\ \A i \in 1..n : WellFormedPattern(patterns_file.data[i])
                /\ n < Len(patterns_file.data) => ~WellFormedPattern(patterns_file.data[n + 1])
                /\ patterns' = [i \in 1..n |-> PatternFromJson(patterns_file.data[i])]
          /\ \E n \in 0..Len(feedback_file.data) :
                /\ \A i \in 1..n : WellFormedFeedback(feedback_file.data[i])
                /\ n < Len(feedback_file.data) => ~WellFormedFeedback(feedback_file.data[n + 1])
                /\ feedback_records' = SubSeq(feedback_file.data, 1, n)]_vars

(* the call of this step had to write a file while the data directory was  *)
(* not writable: a learn that passes the gate, or any record_feedback      *)
SaveFails ==
    /\ ~disk_writable
    /\ \/ call'.op = "learn" /\ ~BelowGate(call'.success_score)
       \/ call'.op = "feedback"

(* the collections in memory after the call of this step, had the          *)
(* directory been writable                                                 *)
MutationOf(st) ==
    IF call'.op = "learn"
    THEN learn_from_interaction(st, call'.input_context, call'.output_result,
                                call'.success_score, call'.brain_region,
                                call'.pattern_type, NoMetadata, clock, FALSE).st
    ELSE record_feedback(st, call'.pattern_id, "user", call'.feedback_type,
                         call'.feedback_score, "out", call'.corrected_output,
                         clock, FALSE).st
MutationKept ==
    LET st == MutationOf([Adapter EXCEPT !.disk_writable = TRUE])
    IN patterns' = st.patterns /\ feedback_records' = st.feedback_records

(* C19: when writing the patterns or feedback file fails during            *)
(* learn_from_interaction or record_feedback, the call reports the failure *)
(* to its caller (it returns no pattern id or feedback id) while the       *)
(* collections in memory keep the mutation.                                *)
C19_SaveFailureReported ==
    [][SaveFails => (ret'.id = NoneId /\ MutationKept)]_vars

(* what the code does: the id is returned as after a successful save, the  *)
(* mutation is kept in memory and the files stay as they were              *)
C19_SaveFailureSilent ==
    [][SaveFails =>
          /\ ret'.id # NoneId
          /\ MutationKept
          /\ UNCHANGED <<patterns_file, feedback_file, vectorizer_file>>]_vars

---------------------------------------------------------------------------
(* Claims about usage_count *)

(* the position in the store after the step of the pattern with this id *)
PositionAfter(pattern_id) == PositionOf(patterns', pattern_id)

(* the usage_count of the stored pattern with this id grows by one *)
UsageIncremented(pattern_id) ==
    LET i == PositionOf(patterns, pattern_id)
        j == PositionAfter(pattern_id)
    IN i # 0 /\ j # 0 /\ patterns'[j].usage_count = patterns[i].usage_count + 1

(* no pattern that stays in the store has its usage_count lowered *)
UsageNeverDecreases ==
    \A i \in 1..Len(patterns) :
        LET j == PositionAfter(patterns[i].id)
        IN j # 0 => patterns'[j].usage_count >= patterns[i].usage_count

(* C21: the usage_count of a stored pattern is incremented by one every    *)
(* time the pattern is returned by retrieve_relevant_patterns and every    *)
(* time learn_from_interaction merges into it, and it never decreases.     *)
C21_UsageCountTracksReuse ==
    [][/\ call'.op = "retrieve" =>
             \A k \in 1..Len(ret'.patterns) : UsageIncremented(ret'.patterns[k].id)
       /\ (LearnCalledAboveGate /\ ret'.id \in KnownIds) => UsageIncremented(ret'.id)
       /\ UsageNeverDecreases]_vars

(* what holds: a merge increments the usage_count of the pattern merged    *)
(* into, retrieve_relevant_patterns changes the usage_count of no pattern, *)
(* and no usage_count of a pattern that stays in the store decreases.      *)
C21_UsageCountByMergeOnly ==
    [][/\ call'.op = "retrieve" => patterns' = patterns
       /\ (LearnCalledAboveGate /\ ret'.id \in KnownIds) => UsageIncremented(ret'.id)
       /\ UsageNeverDecreases]_vars

---------------------------------------------------------------------------
(* Claims about the feedback ledger *)

FeedbackIds == {feedback_records[i].id : i \in 1..Len(feedback_records)}

(* C22: record_feedback is the only operation that changes the feedback    *)
(* collection; each call that returns a feedback id adds exactly one       *)
(* record, under an id no record and no pattern had; and no operation,     *)
(* cleanup_old_patterns purging the referenced pattern included, removes a *)
(* stored feedback record or changes a field of it.                        *)
C22_FeedbackAppendOnly ==
    [][/\ call'.op # "feedback" => feedback_records' = feedback_records
       /\ call'.op = "feedback" =>
             /\ Len(feedback_records') = Len(feedback_records) + 1
             /\ SubSeq(feedback_records', 1, Len(feedback_records)) = feedback_records
             /\ feedback_records'[Len(feedback_records')].id = ret'.id
             /\ ret'.id \notin FeedbackIds \cup KnownIds
             /\ feedback_records'[Len(feedback_records')].pattern_id = call'.pattern_id
             /\ feedback_records'[Len(feedback_records')].feedback_score
                   = call'.feedback_score]_vars

(* a cleanup has purged a pattern whose feedback records are still stored *)
C22_Witness ==
    /\ call.op = "cleanup"
    /\ Len(feedback_records) >= 2
    /\ \E i \in 1..Len(feedback_records) : feedback_records[i].pattern_id \notin KnownIds

---------------------------------------------------------------------------
(* Claims about the validation of requests *)

LearnRequestInvalid ==
    /\ call'.op = "api_learn"
    /\ (call'.success_score < 0 \/ call'.success_score > Scale)

FeedbackRequestInvalid ==
    /\ call'.op = "api_feedback"
    /\ \/ call'.feedback_score < -Scale
       \/ call'.feedback_score > Scale
       \/ call'.feedback_type \notin {"positive", "negative", "correction"}

---------------------------------------------------------------------------
(* Claims about the determinism of retrieval *)

RetrieveCalled == call'.op = "retrieve"

(* the patterns an unfiltered retrieval returns are in non-increasing order *)
(* of their combined score, and those of equal score in the order in which *)
(* the store holds them                                                    *)
TiesInStoreOrder ==
    LET got == ret'.patterns IN
    \A k \in 1..(Len(got) - 1) :
        \/ OwnScore(call'.query_context, got[k]) > OwnScore(call'.query_context, got[k + 1])
        \/ /\ OwnScore(call'.query_context, got[k])
                 = OwnScore(call'.query_context, got[k + 1])
           /\ PositionOf(patterns, got[k].id) < PositionOf(patterns, got[k + 1].id)

---------------------------------------------------------------------------
(* Claims about the order of the steps of a flow *)

(* process_message is called on the stored session s with a message that   *)
(* selects the flow flow_id                                                *)
FlowSelectedOn(s, flow_id) ==
    /\ convCall'.op = "process_message"
    /\ convCall'.session_id = s
    /\ s \in 1..Len(sessions)
    /\ _determine_conversation_flow(flows, sessions[s], convCall'.message).flow_id = flow_id

(* the flow was not the one the session was running: this call selects it *)
NewlySelected(s, flow_id) == sessions[s].current_flow # flow_id

(* current_step of a context, 0 while the context has none *)
CurrentStepOf(context) ==
    IF "current_step" \in DOMAIN context.flow_variables
    THEN context.flow_variables["current_step"] ELSE 0

(* the steps of the flow that have been run since it was selected, as the  *)
(* claim counts them: none when this call selects the flow                 *)
StepsRunSinceSelected(s, flow_id) ==
    IF NewlySelected(s, flow_id) THEN 0 ELSE CurrentStepOf(sessions[s])

(* the result of running step number n (from 0) of the flow on session s *)
ResultOfStep(s, flow, n) ==
    _execute_flow_step(max_conversation_history, sessions[s], flow, flow.steps[n + 1],
                       convCall'.message, seconds).result

FlowCompletedReported == "flow_completed" \in DOMAIN convRet'

(* C25: in every session, whatever flows the messages select in turn, a    *)
(* call reports flow F completed only when every step of F has been run    *)
(* since F was selected; a call that runs a step runs the next step of F   *)
(* in list order, the first one when the call selects F; and current_step  *)
(* grows by exactly one when the step returns step_completed=True and is   *)
(* unchanged otherwise.                                                    *)
C25_StepsInOrder ==
    [][\A s \in 1..Len(sessions) : \A k \in 1..Len(flows) :
          FlowSelectedOn(s, flows[k].flow_id) =>
              LET done == StepsRunSinceSelected(s, flows[k].flow_id) IN
              /\ FlowCompletedReported => done = Len(flows[k].steps)
              /\ ~FlowCompletedReported =>
                    /\ done < Len(flows[k].steps)
                    /\ convRet' = ResultOfStep(s, flows[k], done)
                    /\ CurrentStepOf(sessions'[s]) =
                          IF StepCompleted(convRet') THEN done + 1 ELSE done]_vars

(* what holds: the step counter is one per session, kept across the flows  *)
(* of the session; the call runs the step of the selected flow that the    *)
(* counter names, or reports the flow completed when the counter has       *)
(* reached the number of its steps, and a completed step adds one to it    *)
C25_StepsBySharedCounter ==
    [][\A s \in 1..Len(sessions) : \A k \in 1..Len(flows) :
          FlowSelectedOn(s, flows[k].flow_id) =>
              LET counter == CurrentStepOf(sessions[s]) IN
              /\ FlowCompletedReported <=> counter >= Len(flows[k].steps)
              /\ FlowCompletedReported => CurrentStepOf(sessions'[s]) = counter
              /\ ~FlowCompletedReported =>
                    /\ convRet' = ResultOfStep(s, flows[k], counter)
                    /\ CurrentStepOf(sessions'[s]) =
                          IF StepCompleted(convRet') THEN counter + 1 ELSE counter]_vars

---------------------------------------------------------------------------
(* Claims about a flow that has completed *)

(* a flow has completed in session s and none has been selected since:     *)
(* _complete_flow has recorded the duration and cleared current_flow       *)
FlowHasCompleted(s) ==
    /\ "flow_duration" \in DOMAIN sessions[s].flow_variables
    /\ sessions[s].current_flow = None

(* C27: after a flow has completed in a session, a later message of that   *)
(* session that selects a flow starts that flow at its first step (step    *)
(* index 0) and runs it; the flow is not reported completed at once.       *)
C27_CompletedFlowRunsAgain ==
    [][\A s \in 1..Len(sessions) : \A k \in 1..Len(flows) :
          (FlowHasCompleted(s) /\ FlowSelectedOn(s, flows[k].flow_id)) =>
              /\ ~FlowCompletedReported
              /\ convRet' = ResultOfStep(s, flows[k], 0)
              /\ CurrentStepOf(sessions'[s]) = 1]_vars

(* what holds: _complete_flow leaves current_step where it was, the step   *)
(* counter of a session never goes back, and a flow selected after a       *)
(* completion whose steps are no more than the counter is reported         *)
(* completed again without a step being run                                *)
C27_CounterKeptAfterCompletion ==
    [][\A s \in 1..Len(sessions) :
          /\ CurrentStepOf(sessions'[s]) >= CurrentStepOf(sessions[s])
          /\ \A k \in 1..Len(flows) :
                (/\ FlowHasCompleted(s)
                 /\ FlowSelectedOn(s, flows[k].flow_id)
                 /\ Len(flows[k].steps) <= CurrentStepOf(sessions[s]))
                => /\ FlowCompletedReported
                   /\ convRet'.flow_id = flows[k].flow_id
                   /\ CurrentStepOf(sessions'[s]) = CurrentStepOf(sessions[s])]_vars

---------------------------------------------------------------------------
(* Claims about the similarity index *)

(* the vectors of the index, none while pattern_vectors is None *)
IndexRows == IF pattern_vectors.present THEN pattern_vectors.rows ELSE <<>>

(* one vector per stored pattern, the i-th being the vector of the i-th    *)
(* pattern of the store under the fitted vocabulary                        *)
IndexMatchesStore ==
    /\ Len(IndexRows) = Len(patterns)
    /\ \A i \in 1..Len(patterns) :
          IndexRows[i] = Transform(vectorizer.vocab, patterns[i].input_context)

MutatingCallCompleted == call.op \in {"learn", "feedback", "cleanup"}

(* C26: after every completed learn_from_interaction, record_feedback and  *)
(* cleanup_old_patterns call, a cleanup that removes every pattern         *)
(* included, the similarity index holds exactly one vector per stored      *)
(* pattern, the i-th vector being the vector of the i-th pattern in the    *)
(* order of the store; the index holds no vector of a pattern that is not  *)
(* in the store.                                                           *)
C26_IndexConsistency == MutatingCallCompleted => IndexMatchesStore

(* what holds: the index matches the store after those calls whenever the  *)
(* store is not empty and some stored input_context has an index token,    *)
(* that is whenever the last _update_vectorizer went through its fit       *)
C26_IndexAfterFit ==
    (/\ MutatingCallCompleted
     /\ patterns # <<>>
     /\ CorpusVocab(PatternTexts(patterns)) # {})
    => IndexMatchesStore

---------------------------------------------------------------------------
(* Claims about the independence of sessions *)

(* the stored session a call works on: the one it names; a                 *)
(* start_conversation that names no stored session works on none of them   *)
SessionAddressed ==
    IF convCall'.session_id \in 1..Len(sessions) THEN {convCall'.session_id} ELSE {}

(* C28: a start_conversation or process_message call on one session leaves *)
(* the context of every other session (current_state, current_flow,        *)
(* flow_variables, conversation_history, brain_region and the rest)        *)
(* unchanged, removes no session, and leaves the registered flows          *)
(* unchanged.                                                              *)
C28_SessionIsolation ==
    [][convCall'.op \in {"start_conversation", "process_message"} =>
          /\ Len(sessions') >= Len(sessions)
          /\ \A s \in (1..Len(sessions)) \ SessionAddressed : sessions'[s] = sessions[s]
          /\ flows' = flows]_vars

(* a message was processed on the second session, which ran a flow step,   *)
(* while the first session is in another state with another history        *)
C28_Witness ==
    /\ Len(sessions) = 2
    /\ convCall.op = "process_message"
    /\ convCall.session_id = 2
    /\ sessions[2].current_state = "flow_execution"
    /\ sessions[1].current_state = "listening"
    /\ Len(sessions[1].conversation_history) >= 2
    /\ sessions[1].conversation_history # sessions[2].conversation_history

---------------------------------------------------------------------------
(* Claims about the brain region of a session *)

FixedRegions ==
    {"TEMPORAL_LOBE", "OCCIPITAL_LOBE", "PARIETAL_LOBE", "CEREBELLUM", "FRONTAL_LOBE"}

(* the message has a word of the bucket *)
HasWordOf(bucket, message) ==
    \E k \in 1..Len(bucket) : Contains(Lower(message), bucket[k])

(* a start_conversation call has created the session *)
SessionCreated ==
    /\ convCall'.op = "start_conversation"
    /\ Len(sessions') = Len(sessions) + 1

(* the region of the first bucket, in the order memory > personal > task > *)
(* tool, that has a word in the message; whenNone when no bucket has one   *)
RegionByPriority(message, whenNone) ==
    IF HasWordOf(MemoryWords, message) THEN "TEMPORAL_LOBE"
    ELSE IF HasWordOf(PersonalWords, message) THEN "OCCIPITAL_LOBE"
    ELSE IF HasWordOf(TaskWords, message) THEN "PARIETAL_LOBE"
    ELSE IF HasWordOf(ToolWords, message) THEN "CEREBELLUM"
    ELSE whenNone

RegionNeverReclassified ==
    \A s \in 1..Len(sessions) : sessions'[s].brain_region = sessions[s].brain_region

(* C29: the brain_region of a new session is one of the five fixed         *)
(* regions, that of the first keyword bucket in the order memory >         *)
(* personal > task > tool with a word in the message, and the configured   *)
(* default_brain_region when no bucket has one; later calls never change   *)
(* the brain_region of a session.                                          *)
C29_BrainRegion ==
    [][/\ SessionCreated =>
             /\ sessions'[Len(sessions')].brain_region \in FixedRegions
             /\ sessions'[Len(sessions')].brain_region =
                   RegionByPriority(convCall'.initial_message, default_brain_region)
       /\ RegionNeverReclassified]_vars

(* what holds: the same with FRONTAL_LOBE, whatever default_brain_region   *)
(* is configured, as the region of a message without a word of any bucket  *)
C29_FrontalWhenNoBucket ==
    [][/\ SessionCreated =>
             /\ sessions'[Len(sessions')].brain_region \in FixedRegions
             /\ sessions'[Len(sessions')].brain_region =
                   RegionByPriority(convCall'.initial_message, "FRONTAL_LOBE")
       /\ RegionNeverReclassified]_vars

---------------------------------------------------------------------------
(* Claims about concurrent requests *)

(* both learn_from_interaction calls have returned *)
BothLearned == \A t \in ThreadIds : threads[t].pc = "done"

FileEqualsMemory ==
    /\ patterns_file.exists
    /\ patterns_file.data = [i \in 1..Len(patterns) |-> PatternToJson(patterns[i])]

(* C30: when two learn_from_interaction calls for near-duplicate contexts  *)
(* (same pattern_type and brain_region, both above the gate) are run by    *)
(* concurrent request threads on the shared adapter, then after every      *)
(* interleaving of their find-similar, insert, index-rebuild and save      *)
(* steps the store holds exactly one pattern for that context, with        *)
(* usage_count == 2, and the persisted file equals the collection in       *)
(* memory.                                                                 *)
C30_ConcurrentMerge ==
    BothLearned =>
        /\ Len(patterns) = 1
        /\ patterns[1].usage_count = 2
        /\ FileEqualsMemory

(* what holds: the two calls leave either the one merged pattern with      *)
(* usage_count 2 or, when both looked for a similar pattern before either  *)
(* had inserted its own, two patterns with usage_count 1 each; the file    *)
(* written last equals the collection in memory                            *)
C30_MergedOrDuplicated ==
    BothLearned =>
        /\ \/ Len(patterns) = 1 /\ patterns[1].usage_count = 2
           \/ /\ Len(patterns) = 2
              /\ patterns[1].usage_count = 1
              /\ patterns[2].usage_count = 1
              /\ \A t \in ThreadIds : threads[t].similar = NoneId
        /\ FileEqualsMemory

====
